---- MODULE Spec2Model ----
(***************************************************************************)
(* Context budgeting and continuity state of the "bob" runtime:            *)
(*   bob/runtime/context_window.py  token accounting, window fitting       *)
(*   bob/runtime/orchestrator.py    the turn (Orchestrator)                *)
(*   bob/turbotime/orchestrator.py  the staged turn (TurbotimeOrchestrator)*)
(*   bob/runtime/state.py           StateStore / BobState                  *)
(*   R_D/logging.py                 JsonlLogger / TurnRecord               *)
(*                                                                         *)
(* A text is a sequence of tokens; the tokenizer counts the tokens of a    *)
(* text and truncates a text to its first n tokens.  Whitespace is a token *)
(* of its own, so that str.strip() is not the identity.                    *)
(***************************************************************************)
EXTENDS Integers, Sequences, FiniteSets, TLC

\* ------------------------------------------------------------------ bounds
MaxTurns == 2          \* turns started on one store
MaxFitLen == 3         \* longest live chat handed to the fitting harness
LongTurns == 4         \* turns started on one store in the long run
MaxRebuilds == 2       \* rebuilds applied in a row to one summary
MaxUpdates == 2        \* continuity updates applied in a row to one store
MaxKeepLen == 5        \* longest message list handed to keep_last_turns
MaxKeepTurns == 3      \* largest turns argument handed to keep_last_turns

\* ------------------------------------------------------------------ texts
SP == "<sp>"
NL == "<lf>"

IsSpace(tok) == tok \in {SP, NL}

RECURSIVE lstrip(_)
lstrip(t) == IF t # <<>> /\ IsSpace(Head(t)) THEN lstrip(Tail(t)) ELSE t

RECURSIVE rstrip(_)
rstrip(t) ==
    IF t # <<>> /\ IsSpace(t[Len(t)]) THEN rstrip(SubSeq(t, 1, Len(t) - 1)) ELSE t

\* str.strip()
strip(t) == rstrip(lstrip(t))

\* sep.join(blocks)
RECURSIVE join(_, _)
join(blocks, sep) ==
    IF blocks = <<>> THEN <<>>
    ELSE IF Len(blocks) = 1 THEN blocks[1]
    ELSE blocks[1] \o <<sep>> \o join(Tail(blocks), sep)

Max(a, b) == IF a >= b THEN a ELSE b
Min(a, b) == IF a <= b THEN a ELSE b

IsSuffix(s, t) ==
    /\ Len(s) <= Len(t)
    /\ s = SubSeq(t, Len(t) - Len(s) + 1, Len(t))

\* ------------------------------------------------------------- tokenizer
\* OSS20BTokenizer.count
count(text) == Len(text)

\* OSS20BTokenizer.truncate_to_tokens
truncate_to_tokens(text, max_tokens) ==
    IF max_tokens <= 0 THEN <<>>
    ELSE IF count(text) <= max_tokens THEN text
    ELSE SubSeq(text, 1, max_tokens)

\* ---------------------------------------------------------- configuration
\* SYSTEM_PROMPT (bob.prompts.stages / bob.turbotime.prompts)
SYSTEM_PROMPT == <<"[system prompt]">>

\* BobConfig values read by ContextWindowManager.from_config and the
\* orchestrators; every configuration below is one the program can be
\* started with.
Budgets ==
    { [model_window_tokens |-> 24, summary_target_tokens |-> 4,
       live_chat_target_tokens |-> 8, reserved_buffer_tokens |-> 2,
       live_chat_retain_turns_after_rebuild |-> 1],
      [model_window_tokens |-> 14, summary_target_tokens |-> 300,
       live_chat_target_tokens |-> 50, reserved_buffer_tokens |-> 1,
       live_chat_retain_turns_after_rebuild |-> 2],
      [model_window_tokens |-> 5, summary_target_tokens |-> 4,
       live_chat_target_tokens |-> 50, reserved_buffer_tokens |-> 0,
       live_chat_retain_turns_after_rebuild |-> 1] }

VARIABLES
    cfg,            \* BobConfig / ContextBudget of this process
    orch,           \* which orchestrator drives the store: "runtime" | "turbotime"
    store,          \* StateStore._state (BobState)
    file,           \* the persisted record at StateStore.path
    log,            \* the lines of the audit log (JsonlLogger.path)
    clock,          \* now_utc()
    session,        \* Session.turn_counter
    pc,             \* position of run_turn_stream
    frame,          \* locals of run_turn_stream
    stream,         \* what chat_text_stream still has to deliver
    events,         \* what the current turn has done so far, in order
    outcome,        \* how the last turn ended, as the caller saw it
    harness_pc,     \* pure-function harness: "off" | "call" | "done"
    call,           \* pure-function harness: the arguments
    ret             \* pure-function harness: the result

\* ------------------------------------------------------ context_window.py
FormatLine(m) ==
    IF m.role = "assistant" THEN <<"Assistant: ">> \o strip(m.content)
    ELSE <<"User: ">> \o strip(m.content)

RECURSIVE LiveLines(_)
LiveLines(messages) ==
    IF messages = <<>> THEN <<>>
    ELSE (IF strip(Head(messages).content) = <<>> THEN <<>>
          ELSE <<FormatLine(Head(messages))>>) \o LiveLines(Tail(messages))

format_live_chat(messages) == join(LiveLines(messages), NL)

\* keep_last_turns that takes n_turns for the number of messages to keep
keep_last_turns_counts_messages(messages, turns) ==
    LET n_turns == Max(1, IF turns = 0 THEN 1 ELSE turns)
        max_messages == n_turns
    IN  IF Len(messages) <= max_messages THEN messages
        ELSE SubSeq(messages, Len(messages) - max_messages + 1, Len(messages))

keep_last_turns(messages, turns) ==
    LET n_turns == Max(1, IF turns = 0 THEN 1 ELSE turns)
        max_messages == n_turns * 2
    IN  IF Len(messages) <= max_messages THEN messages
        ELSE SubSeq(messages, Len(messages) - max_messages + 1, Len(messages))

\* count_buckets that reports pressure already when the window is exactly full
count_buckets_full_is_pressure(system_block, conversation_summary, live_chat_messages, tool_injections, current_user_input) ==
    LET used_without_reserve ==
            count(system_block)
            + count(strip(<<"Conversation Summary (non-authoritative):", NL>>
                          \o strip(conversation_summary)))
            + count(format_live_chat(live_chat_messages))
            + count(tool_injections)
            + count(<<"Current User Input:", NL>> \o strip(current_user_input))
        total_with_reserve == used_without_reserve + Max(0, cfg.reserved_buffer_tokens)
    IN  [system_block |-> count(system_block),
         conversation_summary |->
            count(strip(<<"Conversation Summary (non-authoritative):", NL>>
                        \o strip(conversation_summary))),
         live_chat_buffer |-> count(format_live_chat(live_chat_messages)),
         tool_injections |-> count(tool_injections),
         reserved_buffer |-> Max(0, cfg.reserved_buffer_tokens),
         current_user_input |->
            count(<<"Current User Input:", NL>> \o strip(current_user_input)),
         used_without_reserve |-> used_without_reserve,
         total_with_reserve |-> total_with_reserve,
         model_window |-> cfg.model_window_tokens,
         pressure |-> (total_with_reserve >= cfg.model_window_tokens)]

count_buckets(system_block, conversation_summary, live_chat_messages, tool_injections, current_user_input) ==
    LET summary_block ==
            strip(<<"Conversation Summary (non-authoritative):", NL>>
                  \o strip(conversation_summary))
        live_block == format_live_chat(live_chat_messages)
        user_block == <<"Current User Input:", NL>> \o strip(current_user_input)
        system_tokens == count(system_block)
        summary_tokens == count(summary_block)
        live_chat_tokens == count(live_block)
        tool_tokens == count(tool_injections)
        current_input_tokens == count(user_block)
        reserved_tokens == Max(0, cfg.reserved_buffer_tokens)
        used_without_reserve ==
            system_tokens + summary_tokens + live_chat_tokens + tool_tokens
            + current_input_tokens
        total_with_reserve == used_without_reserve + reserved_tokens
    IN  [system_block |-> system_tokens,
         conversation_summary |-> summary_tokens,
         live_chat_buffer |-> live_chat_tokens,
         tool_injections |-> tool_tokens,
         reserved_buffer |-> reserved_tokens,
         current_user_input |-> current_input_tokens,
         used_without_reserve |-> used_without_reserve,
         total_with_reserve |-> total_with_reserve,
         model_window |-> cfg.model_window_tokens,
         pressure |-> (total_with_reserve > cfg.model_window_tokens)]

\* FitLoop with msgs.pop() in place of msgs.pop(0): the newest turn goes first
RECURSIVE FitLoopPopsNewest(_, _, _, _, _, _)
FitLoopPopsNewest(system_block, conversation_summary, msgs, tool_injections, current_user_input, n) ==
    LET metrics == count_buckets(system_block, conversation_summary, msgs,
                                 tool_injections, current_user_input)
    IN  IF msgs # <<>> /\ metrics.pressure
        THEN FitLoopPopsNewest(system_block, conversation_summary,
                               SubSeq(msgs, 1, Len(msgs) - 1),
                               tool_injections, current_user_input, n + 1)
        ELSE [msgs |-> msgs, metrics |-> metrics, evictions |-> n]

\* FitLoop that reports no pressure once nothing is left to evict
RECURSIVE FitLoopHidesPressure(_, _, _, _, _, _)
FitLoopHidesPressure(system_block, conversation_summary, msgs, tool_injections, current_user_input, n) ==
    LET metrics == count_buckets(system_block, conversation_summary, msgs,
                                 tool_injections, current_user_input)
    IN  IF msgs # <<>> /\ metrics.pressure
        THEN FitLoopHidesPressure(system_block, conversation_summary, Tail(msgs),
                                  tool_injections, current_user_input, n + 1)
        ELSE [msgs |-> msgs,
              metrics |-> IF msgs = <<>> THEN [metrics EXCEPT !.pressure = FALSE]
                          ELSE metrics,
              evictions |-> n]

\* FitLoop that pops two turns at a time while two are left
RECURSIVE FitLoopPopsTwo(_, _, _, _, _, _)
FitLoopPopsTwo(system_block, conversation_summary, msgs, tool_injections, current_user_input, n) ==
    LET metrics == count_buckets(system_block, conversation_summary, msgs,
                                 tool_injections, current_user_input)
    IN  IF msgs # <<>> /\ metrics.pressure
        THEN FitLoopPopsTwo(system_block, conversation_summary,
                            IF Len(msgs) >= 2 THEN Tail(Tail(msgs)) ELSE Tail(msgs),
                            tool_injections, current_user_input,
                            n + (IF Len(msgs) >= 2 THEN 2 ELSE 1))
        ELSE [msgs |-> msgs, metrics |-> metrics, evictions |-> n]

\* the while loop of fit_live_chat_to_budget; n counts the msgs.pop(0)
RECURSIVE FitLoop(_, _, _, _, _, _)
FitLoop(system_block, conversation_summary, msgs, tool_injections, current_user_input, n) ==
    LET metrics == count_buckets(system_block, conversation_summary, msgs,
                                 tool_injections, current_user_input)
    IN  IF msgs # <<>> /\ metrics.pressure
        THEN FitLoop(system_block, conversation_summary, Tail(msgs),
                     tool_injections, current_user_input, n + 1)
        ELSE [msgs |-> msgs, metrics |-> metrics, evictions |-> n]

fit_live_chat_to_budget(system_block, conversation_summary, live_chat_messages, tool_injections, current_user_input) ==
    FitLoop(system_block, conversation_summary, live_chat_messages,
            tool_injections, current_user_input, 0)

render_chat_first_prompt(conversation_summary, live_chat_messages, current_user_input, tool_injections) ==
    LET s == strip(conversation_summary)
        l == format_live_chat(live_chat_messages)
        blocks ==
            << <<"Conversation Summary (non-authoritative):">>,
               IF s = <<>> THEN <<"(none)">> ELSE s,
               <<>>,
               <<"Live Chat (recent turns):">>,
               IF l = <<>> THEN <<"(none)">> ELSE l >>
            \o (IF strip(tool_injections) # <<>>
                THEN << <<>>, strip(tool_injections) >> ELSE <<>>)
            \o << <<>>, <<"Current User Input:">>, strip(current_user_input) >>
    IN  strip(join(blocks, NL))


\* ---------------------------------------------------------------- state.py
\* Optional[...] values: None is the empty sequence, a value v is <<v>>
None == <<>>
Some(v) == <<v>>

\* IdentityState(system_id=..., display_name=..., agent_name=display_name)
IdentityState ==
    [system_id |-> "bob", display_name |-> "Bob", agent_name |-> "Bob",
     version |-> "v1", role |-> "Magic playing homie",
     core_directive |-> "Maintain coherent reasoning",
     tone_baseline |-> "curious, grounded, lightly irreverent",
     tone_active |-> "engaged"]

\* AffectState defaults, in hundredths
AffectState ==
    [curiosity |-> 75, calm |-> 60, confidence |-> 55, tension |-> 20,
     engagement |-> 65]

IntegrityState ==
    [last_turn_consistent |-> TRUE, contradictions_detected |-> FALSE]

\* the BobState that _load_or_init builds when no record exists
BobState(now) ==
    [identity |-> IdentityState,
     affect_state |-> AffectState,
     integrity |-> IntegrityState,
     active_context |-> <<>>,
     open_threads |-> <<>>,
     conversation_summary |-> <<>>,
     live_chat |-> <<>>,
     last_updated_utc |-> Some(now),
     turn_counter |-> 0,
     context_metrics |-> None,
     last_context_rebuild |-> None]

\* BobState.to_dict
to_dict(s) ==
    [identity |-> s.identity,
     affect_state |-> s.affect_state,
     continuity |->
        [active_context |-> s.active_context,
         open_threads |-> s.open_threads,
         conversation_summary |-> s.conversation_summary,
         live_chat |-> s.live_chat,
         integrity |-> s.integrity],
     meta |->
        [last_updated_utc |-> s.last_updated_utc,
         turn_counter |-> s.turn_counter,
         context_metrics |-> s.context_metrics,
         last_context_rebuild |-> s.last_context_rebuild]]

\* StateStore.snapshot: deepcopy(self._state.to_dict())
snapshot(s) == to_dict(s)

\* obj.get(key) on a dict modelled as a record: None for a missing key
Get(obj, key) == IF key \in DOMAIN obj THEN obj[key] ELSE None

\* _clamp01(x, default) in hundredths; x is None (absent, or not a number)
\* or Some(number)
clamp01(x, default) ==
    IF x = None THEN default
    ELSE IF x[1] < 0 THEN 0
    ELSE IF x[1] > 100 THEN 100
    ELSE x[1]

\* AffectState.from_dict; obj maps some of the five keys to None or Some(n)
AffectState_from_dict(obj) ==
    [curiosity |-> clamp01(Get(obj, "curiosity"), 75),
     calm |-> clamp01(Get(obj, "calm"), 60),
     confidence |-> clamp01(Get(obj, "confidence"), 55),
     tension |-> clamp01(Get(obj, "tension"), 20),
     engagement |-> clamp01(Get(obj, "engagement"), 65)]

\* IntegrityState.from_dict; obj maps some of the two keys to booleans
IntegrityState_from_dict(obj) ==
    [last_turn_consistent |->
        IF "last_turn_consistent" \in DOMAIN obj THEN obj.last_turn_consistent ELSE TRUE,
     contradictions_detected |->
        IF "contradictions_detected" \in DOMAIN obj
        THEN obj.contradictions_detected ELSE FALSE]

\* commit that resets the continuity lists it is not given
commit_resets_unpassed(s, args, now) ==
    [s EXCEPT
        !.active_context =
            IF Get(args, "active_context") # None THEN args.active_context[1] ELSE <<>>,
        !.open_threads =
            IF Get(args, "open_threads") # None THEN args.open_threads[1] ELSE <<>>,
        !.turn_counter = @ + 1,
        !.last_updated_utc = Some(now)]

\* commit without self._state.turn_counter += 1
commit_keeps_counter(s, args, now) ==
    [s EXCEPT
        !.active_context = args.active_context[1],
        !.open_threads = args.open_threads[1],
        !.conversation_summary = args.conversation_summary[1],
        !.live_chat = args.live_chat[1],
        !.context_metrics = args.context_metrics,
        !.last_updated_utc = Some(now)]

\* StateStore.commit, up to and without _write; args maps each keyword the
\* caller passes to None or Some(value), a keyword it leaves out being None
commit(s, args, now) ==
    [s EXCEPT
        !.active_context =
            IF Get(args, "active_context") # None THEN args.active_context[1] ELSE @,
        !.open_threads =
            IF Get(args, "open_threads") # None THEN args.open_threads[1] ELSE @,
        !.affect_state =
            IF Get(args, "affect_state") # None
            THEN AffectState_from_dict(args.affect_state[1]) ELSE @,
        !.integrity =
            IF Get(args, "integrity") # None
            THEN IntegrityState_from_dict(args.integrity[1]) ELSE @,
        !.identity.tone_active =
            IF Get(args, "tone_active") # None THEN args.tone_active[1] ELSE @,
        !.conversation_summary =
            IF Get(args, "conversation_summary") # None
            THEN args.conversation_summary[1] ELSE @,
        !.live_chat = IF Get(args, "live_chat") # None THEN args.live_chat[1] ELSE @,
        !.context_metrics =
            IF Get(args, "context_metrics") # None THEN args.context_metrics ELSE @,
        !.last_context_rebuild =
            IF Get(args, "last_context_rebuild") # None
            THEN args.last_context_rebuild ELSE @,
        !.turn_counter = @ + 1,
        !.last_updated_utc = Some(now)]

\* StateStore._write: the whole record replaces the file's content
write(s) == to_dict(s)

\* What the file at self.path can hold.  A JSON object is a record: the one
\* to_dict wrote (json.dump followed by json.load gives back the strings,
\* numbers, booleans, nulls, lists and string-keyed dicts it is made of), or
\* one with keys missing or with WrongType values.  Everything else is one
\* of the three markers.
NoFile == [absent |-> TRUE]
NotJson == [not_json |-> TRUE]
JsonNonObject == [non_object |-> TRUE]
WrongType == [wrong_type |-> TRUE]

\* str(obj.get(key) or default): a missing or empty string gives the default
StrOr(obj, key, default) ==
    IF key \in DOMAIN obj THEN (IF obj[key] = "" THEN default ELSE obj[key])
    ELSE default

IdentityState_from_dict(obj) ==
    LET system_id == StrOr(obj, "system_id", "bob")
        display_name == StrOr(obj, "display_name", StrOr(obj, "agent_name", "Bob"))
        agent_name == StrOr(obj, "agent_name", display_name)
    IN  [system_id |-> system_id, display_name |-> display_name,
         agent_name |-> agent_name,
         version |-> StrOr(obj, "version", "v1"),
         role |-> StrOr(obj, "role", "Magic playing homie"),
         core_directive |-> StrOr(obj, "core_directive", "Maintain coherent reasoning"),
         tone_baseline |->
            StrOr(obj, "tone_baseline", "curious, grounded, lightly irreverent"),
         tone_active |-> StrOr(obj, "tone_active", "engaged")]

\* BobState.from_dict(raw); raised says whether an exception leaves it: raw
\* or one of its dict-valued entries is not a dict (it has no .get)
BobState_from_dict(obj) ==
    LET identity == Get(obj, "identity")
        affect == Get(obj, "affect_state")
        continuity == Get(obj, "continuity")
        integrity == Get(continuity, "integrity")
        meta == Get(obj, "meta")
    IN  IF \/ obj = JsonNonObject
           \/ WrongType \in {identity, affect, continuity, meta}
           \/ integrity = WrongType
        THEN [raised |-> TRUE, state |-> None]
        ELSE [raised |-> FALSE,
              state |->
                [identity |-> IdentityState_from_dict(identity),
                 affect_state |->
                    AffectState_from_dict([k \in DOMAIN affect |-> Some(affect[k])]),
                 integrity |-> IntegrityState_from_dict(integrity),
                 active_context |-> Get(continuity, "active_context"),
                 open_threads |-> Get(continuity, "open_threads"),
                 conversation_summary |-> Get(continuity, "conversation_summary"),
                 live_chat |-> Get(continuity, "live_chat"),
                 last_updated_utc |-> Get(meta, "last_updated_utc"),
                 turn_counter |->
                    IF "turn_counter" \in DOMAIN meta THEN meta.turn_counter ELSE 0,
                 context_metrics |-> Get(meta, "context_metrics"),
                 last_context_rebuild |-> Get(meta, "last_context_rebuild")]]

\* _load_or_init without its try/except: an exception of json.load or of
\* BobState.from_dict leaves the constructor
load_or_init_no_except(content, now) ==
    IF content = NoFile
    THEN [raised |-> FALSE, state |-> BobState(now), file |-> write(BobState(now))]
    ELSE IF content = NotJson THEN [raised |-> TRUE, state |-> None, file |-> content]
    ELSE BobState_from_dict(content) @@ [file |-> content]

\* StateStore._load_or_init on the file's content: the state the store
\* starts with, the file's content afterwards, and whether an exception
\* leaves the constructor
load_or_init(content, now) ==
    IF content = NoFile
    THEN [raised |-> FALSE, state |-> BobState(now), file |-> write(BobState(now))]
    ELSE LET loaded == IF content = NotJson THEN [raised |-> TRUE, state |-> None]
                       ELSE BobState_from_dict(content)
         IN  IF loaded.raised
             THEN [raised |-> FALSE, state |-> BobState(now),
                   file |-> write(BobState(now))]
             ELSE [raised |-> FALSE, state |-> loaded.state, file |-> content]

\* ------------------------------------------- orchestrator.py: continuity
\* str.lower() on the tokens that have an upper-case form
lower(tok) == CASE tok = "Deck" -> "deck" [] tok = "T1" -> "t1" [] OTHER -> tok

LowerText(t) == [i \in 1..Len(t) |-> lower(t[i])]

\* " ".join(text.split()): runs of whitespace become one space, none at the
\* ends.  The text is collapsed half by half; where a run spans the cut, the
\* two spaces it left become one.
RECURSIVE CollapseRuns(_)
CollapseRuns(t) ==
    IF t = <<>> THEN <<>>
    ELSE IF Len(t) = 1 THEN (IF IsSpace(t[1]) THEN <<SP>> ELSE t)
    ELSE LET half == Len(t) \div 2
             l == CollapseRuns(SubSeq(t, 1, half))
             r == CollapseRuns(SubSeq(t, half + 1, Len(t)))
         IN  IF l[Len(l)] = SP /\ r[1] = SP THEN l \o Tail(r) ELSE l \o r

split_join(t) == CollapseRuns(strip(t))

Contains(seq, x) == \E i \in 1..Len(seq) : seq[i] = x

ItemMaxChars == 140
ItemKeptChars == 137

\* CleanLoop without the break at len(out) >= limit
RECURSIVE CleanLoopUncapped(_, _, _)
CleanLoopUncapped(items, out, limit) ==
    IF items = <<>> THEN out
    ELSE LET item == Head(items) IN
         IF ~item.isstr THEN CleanLoopUncapped(Tail(items), out, limit)
         ELSE LET text0 == split_join(item.text) IN
              IF text0 = <<>> THEN CleanLoopUncapped(Tail(items), out, limit)
              ELSE LET text == IF Len(text0) > ItemMaxChars
                               THEN SubSeq(text0, 1, ItemKeptChars) \o <<".", ".", ".">>
                               ELSE text0
                       out2 == IF ~Contains(out, text) THEN Append(out, text) ELSE out
                   IN  CleanLoopUncapped(Tail(items), out2, limit)

\* the loop of _clean_continuity_list over the remaining items
RECURSIVE CleanLoop(_, _, _)
CleanLoop(items, out, limit) ==
    IF items = <<>> THEN out
    ELSE LET item == Head(items) IN
         IF ~item.isstr THEN CleanLoop(Tail(items), out, limit)
         ELSE LET text0 == split_join(item.text) IN
              IF text0 = <<>> THEN CleanLoop(Tail(items), out, limit)
              ELSE LET text == IF Len(text0) > ItemMaxChars
                               THEN SubSeq(text0, 1, ItemKeptChars) \o <<".", ".", ".">>
                               ELSE text0
                       out2 == IF ~Contains(out, text) THEN Append(out, text) ELSE out
                   IN  IF Len(out2) >= limit THEN out2
                       ELSE CleanLoop(Tail(items), out2, limit)

\* value is what data.get(key) returns: [islist, items]
clean_continuity_list(value, limit) ==
    IF ~value.islist THEN <<>> ELSE CleanLoop(value.items, <<>>, limit)

norm(text) == split_join(LowerText(strip(text)))

RECURSIVE NormSet(_)
NormSet(threads) ==
    IF threads = <<>> THEN {} ELSE {norm(Head(threads))} \cup NormSet(Tail(threads))

\* MergePrior without the seen_norm test: repeated prior threads are kept
RECURSIVE MergePriorKeepsDuplicates(_, _, _, _)
MergePriorKeepsDuplicates(prior, resolved_norm, kept, seen_norm) ==
    IF prior = <<>> THEN [kept |-> kept, seen_norm |-> seen_norm]
    ELSE LET t == Head(prior)
             nt == norm(t)
         IN  IF nt = <<>> \/ nt \in resolved_norm
             THEN MergePriorKeepsDuplicates(Tail(prior), resolved_norm, kept, seen_norm)
             ELSE MergePriorKeepsDuplicates(Tail(prior), resolved_norm, Append(kept, t),
                                            seen_norm \cup {nt})

\* MergePrior without the resolved_norm test: resolved prior threads are kept
RECURSIVE MergePriorKeepsResolved(_, _, _, _)
MergePriorKeepsResolved(prior, resolved_norm, kept, seen_norm) ==
    IF prior = <<>> THEN [kept |-> kept, seen_norm |-> seen_norm]
    ELSE LET t == Head(prior)
             nt == norm(t)
         IN  IF nt = <<>> \/ nt \in seen_norm
             THEN MergePriorKeepsResolved(Tail(prior), resolved_norm, kept, seen_norm)
             ELSE MergePriorKeepsResolved(Tail(prior), resolved_norm, Append(kept, t),
                                          seen_norm \cup {nt})

\* first loop of _merge_open_threads (prior threads)
RECURSIVE MergePrior(_, _, _, _)
MergePrior(prior, resolved_norm, kept, seen_norm) ==
    IF prior = <<>> THEN [kept |-> kept, seen_norm |-> seen_norm]
    ELSE LET t == Head(prior)
             nt == norm(t)
         IN  IF nt = <<>> \/ nt \in resolved_norm \/ nt \in seen_norm
             THEN MergePrior(Tail(prior), resolved_norm, kept, seen_norm)
             ELSE MergePrior(Tail(prior), resolved_norm, Append(kept, t),
                             seen_norm \cup {nt})

\* second loop of _merge_open_threads (new threads), with its break
RECURSIVE MergeNew(_, _, _, _)
MergeNew(new, kept, seen_norm, limit) ==
    IF new = <<>> THEN kept
    ELSE LET t == Head(new)
             nt == norm(t)
         IN  IF nt = <<>> \/ nt \in seen_norm
             THEN MergeNew(Tail(new), kept, seen_norm, limit)
             ELSE IF Len(kept) + 1 >= Max(1, limit) THEN Append(kept, t)
             ELSE MergeNew(Tail(new), Append(kept, t), seen_norm \cup {nt}, limit)

\* merge_open_threads with the newly reported threads ahead of the prior ones
merge_open_threads_new_first(prior_threads, new_threads, resolved_threads, limit) ==
    LET first == MergeNew(new_threads, <<>>, {}, limit)
        kept == MergePrior(prior_threads, NormSet(resolved_threads), first,
                           NormSet(first)).kept
    IN  SubSeq(kept, 1, Min(Len(kept), Max(1, limit)))

merge_open_threads(prior_threads, new_threads, resolved_threads, limit) ==
    LET first == MergePrior(prior_threads, NormSet(resolved_threads), <<>>, {})
        kept == MergeNew(new_threads, first.kept, first.seen_norm, limit)
    IN  SubSeq(kept, 1, Min(Len(kept), Max(1, limit)))

\* re.split(r"(?<=[?])\s+", text): cut at whitespace that follows a "?"
RECURSIVE SplitAfterQuestion(_, _)
SplitAfterQuestion(t, cur) ==
    IF t = <<>> THEN <<cur>>
    ELSE IF cur # <<>> /\ cur[Len(cur)] = "?" /\ IsSpace(Head(t))
         THEN <<cur>> \o SplitAfterQuestion(lstrip(t), <<>>)
         ELSE SplitAfterQuestion(Tail(t), Append(cur, Head(t)))

RECURSIVE Questions(_)
Questions(chunks) ==
    IF chunks = <<>> THEN <<>>
    ELSE LET chunk == strip(Head(chunks)) IN
         (IF chunk # <<>> /\ chunk[Len(chunk)] = "?" THEN <<chunk>> ELSE <<>>)
         \o Questions(Tail(chunks))

RECURSIVE AppendNew(_, _)
AppendNew(threads, qs) ==
    IF qs = <<>> THEN threads
    ELSE AppendNew(IF Contains(threads, Head(qs)) THEN threads
                   ELSE Append(threads, Head(qs)), Tail(qs))

\* fallback_continuity that appends every question, not only questions[:3]
fallback_continuity_uncapped(state_before, user_input) ==
    LET questions == Questions(SplitAfterQuestion(strip(user_input), <<>>))
    IN  [active_context |-> state_before.continuity.active_context,
         open_threads |->
            AppendNew(state_before.continuity.open_threads, questions)]

fallback_continuity(state_before, user_input) ==
    LET questions == Questions(SplitAfterQuestion(strip(user_input), <<>>))
    IN  [active_context |-> state_before.continuity.active_context,
         open_threads |->
            AppendNew(state_before.continuity.open_threads,
                      SubSeq(questions, 1, Min(3, Len(questions))))]

\* What chat.chat_text does in the continuity call: it raises, or returns raw
\* text.  Either the text holds no parseable JSON object between its first
\* "{" and its last "}" (kind "nojson"), or it holds the object raw.data;
\* data.haskeys is false for the empty object {}, and each of its three values
\* is [islist, items] (islist false for a missing key or a non-list value).
parse_continuity_json(raw) ==
    IF raw.kind = "object" THEN Some(raw.data) ELSE None

ActiveContextLimit == 6
OpenThreadsLimit == 4

\* update_continuity without the try/except around chat.chat_text
update_continuity_no_except(state_before, user_input, reply) ==
    [raised |-> reply.raises,
     active_context |-> state_before.continuity.active_context,
     open_threads |-> state_before.continuity.open_threads]

\* _update_continuity once the assistant output is known to be non-empty;
\* raised says whether an exception leaves it
update_continuity(state_before, user_input, reply) ==
    IF reply.raises
    THEN [raised |-> FALSE,
          active_context |-> state_before.continuity.active_context,
          open_threads |-> state_before.continuity.open_threads]
    ELSE LET data == parse_continuity_json(reply.raw) IN
         IF data = None \/ ~data[1].haskeys
         THEN [raised |-> FALSE] @@ fallback_continuity(state_before, user_input)
         ELSE LET active == clean_continuity_list(data[1].active_context, ActiveContextLimit)
                  threads0 == clean_continuity_list(data[1].open_threads, OpenThreadsLimit)
                  resolved == clean_continuity_list(data[1].resolved_threads, OpenThreadsLimit)
                  threads == merge_open_threads(state_before.continuity.open_threads,
                                                threads0, resolved, OpenThreadsLimit)
              IN  IF active = <<>> /\ threads = <<>>
                  THEN [raised |-> FALSE] @@ fallback_continuity(state_before, user_input)
                  ELSE [raised |-> FALSE, active_context |-> active,
                        open_threads |-> threads]

\* ---------------------------------------------- orchestrator.py: rebuild
SummaryFloorTokens == 256

\* summary_pass without its try/except: the client's exception leaves it
summary_pass_no_except(reply, source_text) ==
    [raised |-> reply.raises, text |-> strip(reply.text)]

\* summary_pass whose except branch returns "" in place of source_text
summary_pass_drops_source(reply, source_text) ==
    [raised |-> FALSE, text |-> IF reply.raises THEN <<>> ELSE strip(reply.text)]

\* _summary_pass: reply is what chat.chat_text does, [raises, text]; the
\* result says whether an exception leaves _summary_pass (raised) and what
\* it returns otherwise
summary_pass(reply, source_text) ==
    [raised |-> FALSE,
     text |-> IF reply.raises THEN source_text ELSE strip(reply.text)]

\* rebuild_result without the hard truncation
rebuild_result_untruncated(refined) == strip(refined)

\* _rebuild_summary after both passes: the hard truncation
rebuild_result(refined) ==
    truncate_to_tokens(strip(refined), Max(SummaryFloorTokens, cfg.summary_target_tokens))

\* rebuild_transcript rendered from the retained turns only
rebuild_transcript_of_retained(prior_summary, live_chat) ==
    render_chat_first_prompt(
        prior_summary,
        keep_last_turns(live_chat, cfg.live_chat_retain_turns_after_rebuild),
        <<>>, <<>>)

\* the transcript _rebuild_summary renders for the coarse pass
rebuild_transcript(prior_summary, live_chat) ==
    render_chat_first_prompt(prior_summary, live_chat, <<>>, <<>>)

\* _rebuild_summary as a whole, given what chat.chat_text does in each pass
rebuild_summary(prior_summary, live_chat, coarse_reply, refine_reply) ==
    LET transcript == rebuild_transcript(prior_summary, live_chat)
        coarse == summary_pass(coarse_reply, transcript).text
        refined == summary_pass(refine_reply, coarse).text
    IN  rebuild_result(refined)

\* TurbotimeOrchestrator._format_tool_context
format_tool_context(enabled_tools) ==
    IF enabled_tools = <<>> THEN <<"=== ENABLED TOOLS ===", NL, "NONE">>
    ELSE <<"=== ENABLED TOOLS ===">>
         \o join([i \in 1..Len(enabled_tools) |-> <<NL, "- ", enabled_tools[i]>>], NL)

\* ------------------------------------------------- what the world can do
\* user_input of a turn
UserInputs == { <<"hi">>, <<SP, "where", "?", SP, "ok">> }

\* chat.chat_text in a summarisation pass
SummaryReplies ==
    { [raises |-> TRUE, text |-> <<>>],
      [raises |-> FALSE, text |-> <<SP, "digest", NL>>] }

\* chat.chat_text in stage 1, stage 2 and the integration call
StageReplies ==
    { [raises |-> TRUE, text |-> <<>>],
      [raises |-> FALSE, text |-> <<"think">>] }

\* format_tool_results(tool_results) of the turn's tool requests
ToolBlocks == { <<>>, <<"[tool result]">> }

\* chat.chat_text_stream: the fragments it yields, then it ends or raises
StreamPlans ==
    { [frags |-> <<>>, raises |-> TRUE],
      [frags |-> <<>>, raises |-> FALSE],
      [frags |-> << <<SP, "sure">>, <<"ok", NL>> >>, raises |-> FALSE],
      [frags |-> << <<"su">> >>, raises |-> TRUE] }

NoList == [islist |-> FALSE, items |-> <<>>]
List(items) == [islist |-> TRUE, items |-> items]
Str(text) == [isstr |-> TRUE, text |-> text]

\* chat.chat_text in the continuity update
ContinuityReplies ==
    { [raises |-> TRUE, raw |-> [kind |-> "nojson"]],
      [raises |-> FALSE, raw |-> [kind |-> "nojson"]],
      [raises |-> FALSE,
       raw |-> [kind |-> "object",
                data |-> [haskeys |-> TRUE,
                          active_context |-> List(<<Str(<<"Deck", SP, SP, "talk">>)>>),
                          open_threads |-> List(<<Str(<<"todo">>)>>),
                          resolved_threads |-> List(<<Str(<<"where", "?">>)>>)]]] }

\* -------------------------------------------- orchestrator.py: the turn
NoMetrics ==
    [system_block |-> 0, conversation_summary |-> 0, live_chat_buffer |-> 0,
     tool_injections |-> 0, reserved_buffer |-> 0, current_user_input |-> 0,
     used_without_reserve |-> 0, total_with_reserve |-> 0, model_window |-> 0,
     pressure |-> FALSE]

\* the locals of run_turn_stream before the first turn
NoFrame ==
    [user_input |-> <<>>, state_before |-> snapshot(BobState(0)),
     log_before |-> <<>>,
     summary |-> <<>>, live_chat |-> <<>>, tool_context |-> <<>>,
     injections |-> <<>>, rebuilt |-> FALSE, pre_metrics |-> NoMetrics,
     transcript |-> <<>>, coarse |-> <<>>, summary_failures |-> 0,
     fit_in |-> <<>>, fit_metrics |-> NoMetrics, evictions |-> 0,
     think |-> <<>>, prompt_user |-> <<>>, out_buf |-> <<>>, yielded |-> 0,
     live_chat_after |-> <<>>, post_metrics |-> NoMetrics,
     continuity_reply |-> "none",
     active_context |-> <<>>, open_threads |-> <<>>]

vars == <<cfg, orch, store, file, log, clock, session, pc, frame, stream, events, outcome, harness_pc, call, ret>>

harness == <<harness_pc, call, ret>>

Init ==
    /\ cfg \in Budgets
    /\ orch \in {"runtime", "turbotime"}
    /\ clock = 0
    /\ store = BobState(0)
    /\ file = write(BobState(0))
    /\ log = <<>>
    /\ session = 0
    /\ pc = "idle"
    /\ frame = NoFrame
    /\ stream = [frags |-> <<>>, raises |-> FALSE]
    /\ events = <<>>
    /\ outcome = "none"
    /\ harness_pc = "off"
    /\ call = <<>>
    /\ ret = <<>>

\* lines 102-108: fit the window; fit_in keeps what was handed in
Fitted(f) ==
    LET fitted == fit_live_chat_to_budget(SYSTEM_PROMPT, f.summary, f.live_chat,
                                          f.tool_context, f.user_input)
    IN  [f EXCEPT !.fit_in = f.live_chat, !.live_chat = fitted.msgs,
                  !.fit_metrics = fitted.metrics, !.evictions = fitted.evictions]

AfterFit == IF orch = "turbotime" THEN "stage1" ELSE "respond"

\* the rebuild condition without its live-chat-target half
rebuild_triggered_by_pressure_only(pre_metrics) == pre_metrics.pressure

\* the rebuild condition of lines 94-97
rebuild_triggered(pre_metrics) ==
    pre_metrics.live_chat_buffer > cfg.live_chat_target_tokens \/ pre_metrics.pressure

\* now_utc() has a resolution of one second: a turn reads a later second
\* than the turn before it or, in the long run, also the same one
ClockSteps == IF harness_pc = "long" THEN {0, 1} ELSE {1}

\* how many turns a run may start: the long run follows one store further
TurnBudget == IF harness_pc = "long" THEN LongTurns ELSE MaxTurns

\* The caller's first next(): snapshot, pre-metrics, the rebuild decision and,
\* when no rebuild is due, the window fit.
BeginTurn(user_input) ==
    /\ pc = "idle"
    /\ session < TurnBudget
    /\ session' = session + 1
    /\ clock' \in {clock + d : d \in ClockSteps}
    /\ LET state_before == snapshot(store)
           tool_context == IF orch = "turbotime" THEN format_tool_context(<<>>) ELSE <<>>
           summary == state_before.continuity.conversation_summary
           live_chat == state_before.continuity.live_chat
           pre_metrics == count_buckets(SYSTEM_PROMPT, summary, live_chat,
                                        tool_context, user_input)
           f0 == [NoFrame EXCEPT !.user_input = user_input,
                                 !.state_before = state_before,
                                 !.log_before = log,
                                 !.summary = summary,
                                 !.live_chat = live_chat,
                                 !.tool_context = tool_context,
                                 !.injections = tool_context,
                                 !.pre_metrics = pre_metrics]
       IN  IF rebuild_triggered(pre_metrics)
           THEN /\ frame' = [f0 EXCEPT !.transcript = rebuild_transcript(summary, live_chat)]
                /\ pc' = "coarse"
           ELSE /\ frame' = Fitted(f0)
                /\ pc' = AfterFit
    /\ events' = <<"snapshot">>
    /\ outcome' = "running"
    /\ stream' = [frags |-> <<>>, raises |-> FALSE]
    /\ UNCHANGED <<cfg, orch, store, file, log, harness>>

\* an exception leaves run_turn_stream: the generator is finished and the
\* caller sees the exception
Raised(what) ==
    /\ pc' = "idle"
    /\ outcome' = "raised"
    /\ events' = Append(events, what)

\* _rebuild_summary, pass 1
CoarsePass(reply) ==
    /\ pc = "coarse"
    /\ LET coarse == summary_pass(reply, frame.transcript) IN
       IF coarse.raised
       THEN Raised("summary_raise") /\ UNCHANGED frame
       ELSE /\ frame' = [frame EXCEPT
                            !.coarse = coarse.text,
                            !.summary_failures = IF reply.raises THEN 1 ELSE 0]
            /\ events' = Append(events, "summary_call")
            /\ pc' = "refine"
            /\ UNCHANGED outcome
    /\ UNCHANGED <<cfg, orch, store, file, log, clock, session, stream, harness>>

\* RefinePass that hands the whole pre-turn live chat to the fit
RefinePassKeepsAll(reply) ==
    /\ pc = "refine"
    /\ LET refined == summary_pass(reply, frame.coarse) IN
       frame' = Fitted([frame EXCEPT
                            !.summary = rebuild_result(refined.text),
                            !.rebuilt = TRUE,
                            !.summary_failures = @ + (IF reply.raises THEN 1 ELSE 0)])
    /\ events' = Append(events, "summary_call")
    /\ pc' = AfterFit
    /\ UNCHANGED <<cfg, orch, store, file, log, clock, session, stream, outcome, harness>>

\* RefinePass that stores the rebuilt summary at once, before the response
RefinePassPersists(reply) ==
    /\ pc = "refine"
    /\ LET refined == summary_pass(reply, frame.coarse) IN
       /\ frame' = Fitted([frame EXCEPT
                            !.summary = rebuild_result(refined.text),
                            !.live_chat = keep_last_turns(frame.live_chat,
                                              cfg.live_chat_retain_turns_after_rebuild),
                            !.rebuilt = TRUE,
                            !.summary_failures = @ + (IF reply.raises THEN 1 ELSE 0)])
       /\ store' = [store EXCEPT !.conversation_summary = rebuild_result(refined.text)]
       /\ file' = write(store')
    /\ events' = Append(events, "summary_call")
    /\ pc' = AfterFit
    /\ UNCHANGED <<cfg, orch, log, clock, session, stream, outcome, harness>>

\* _rebuild_summary, pass 2 and the truncation; then keep_last_turns and the fit
RefinePass(reply) ==
    /\ pc = "refine"
    /\ LET refined == summary_pass(reply, frame.coarse) IN
       IF refined.raised
       THEN Raised("summary_raise") /\ UNCHANGED frame
       ELSE /\ frame' = Fitted([frame EXCEPT
                            !.summary = rebuild_result(refined.text),
                            !.live_chat = keep_last_turns(frame.live_chat,
                                              cfg.live_chat_retain_turns_after_rebuild),
                            !.rebuilt = TRUE,
                            !.summary_failures = @ + (IF reply.raises THEN 1 ELSE 0)])
            /\ events' = Append(events, "summary_call")
            /\ pc' = AfterFit
            /\ UNCHANGED outcome
    /\ UNCHANGED <<cfg, orch, store, file, log, clock, session, stream, harness>>

\* turbotime stage 1 (orientation)
Stage1(reply) ==
    /\ pc = "stage1"
    /\ IF reply.raises
       THEN Raised("stage_raise") /\ UNCHANGED frame
       ELSE /\ pc' = "stage2"
            /\ events' = Append(events, "stage_call")
            /\ frame' = [frame EXCEPT !.think = <<"STAGE1", NL>> \o strip(reply.text)]
            /\ UNCHANGED outcome
    /\ UNCHANGED <<cfg, orch, store, file, log, clock, session, stream, harness>>

\* turbotime stage 2 (planning) and the tool requests it makes
Stage2(reply, tool_block) ==
    /\ pc = "stage2"
    /\ IF reply.raises
       THEN Raised("stage_raise") /\ UNCHANGED frame
       ELSE /\ pc' = IF tool_block # <<>> THEN "integrate" ELSE "respond"
            /\ events' = Append(events, "stage_call")
            /\ frame' = [frame EXCEPT
                    !.think = @ \o <<NL, NL, "STAGE2", NL>> \o strip(reply.text),
                    !.injections =
                        IF tool_block # <<>>
                        THEN @ \o <<NL, NL, "=== TOOL RESULTS (INTERNAL) ===", NL>> \o tool_block
                        ELSE @]
            /\ UNCHANGED outcome
    /\ UNCHANGED <<cfg, orch, store, file, log, clock, session, stream, harness>>

\* turbotime integration call, made when tools returned results
Integrate(reply) ==
    /\ pc = "integrate"
    /\ IF reply.raises
       THEN Raised("stage_raise")
       ELSE /\ pc' = "respond"
            /\ events' = Append(events, "stage_call")
            /\ UNCHANGED outcome
    /\ UNCHANGED <<cfg, orch, store, file, log, clock, session, stream, frame, harness>>

\* render the prompt and call chat.chat_text_stream
ResponseCall(plan) ==
    /\ pc = "respond"
    /\ frame' = [frame EXCEPT !.prompt_user =
                    render_chat_first_prompt(frame.summary, frame.live_chat,
                                             frame.user_input, frame.injections)]
    /\ stream' = plan
    /\ events' = Append(events, "response_call")
    /\ pc' = "stream"
    /\ UNCHANGED <<cfg, orch, store, file, log, clock, session, outcome, harness>>

\* StreamFragment that saves the partial reply to the store as it grows
StreamFragmentPersists ==
    /\ pc = "stream"
    /\ stream.frags # <<>>
    /\ frame' = [frame EXCEPT !.out_buf = @ \o Head(stream.frags), !.yielded = @ + 1]
    /\ stream' = [stream EXCEPT !.frags = Tail(@)]
    /\ store' = [store EXCEPT !.live_chat =
                    frame.live_chat
                    \o << [role |-> "user", content |-> frame.user_input],
                          [role |-> "assistant", content |-> frame'.out_buf] >>]
    /\ file' = write(store')
    /\ events' = Append(events, "fragment")
    /\ UNCHANGED <<cfg, orch, log, clock, session, pc, outcome, harness>>

\* one fragment arrives: out_buf += tok; yield tok
StreamFragment ==
    /\ pc = "stream"
    /\ stream.frags # <<>>
    /\ frame' = [frame EXCEPT !.out_buf = @ \o Head(stream.frags), !.yielded = @ + 1]
    /\ stream' = [stream EXCEPT !.frags = Tail(@)]
    /\ events' = Append(events, "fragment")
    /\ UNCHANGED <<cfg, orch, store, file, log, clock, session, pc, outcome, harness>>

\* the response call raises, before or during streaming
StreamRaise ==
    /\ pc = "stream"
    /\ stream.frags = <<>>
    /\ stream.raises
    /\ Raised("response_raise")
    /\ UNCHANGED <<cfg, orch, store, file, log, clock, session, frame, stream, harness>>

\* the caller drops the generator while it is suspended at a yield
CallerAbandon ==
    /\ pc = "stream"
    /\ frame.yielded > 0
    /\ pc' = "idle"
    /\ outcome' = "cancelled"
    /\ events' = Append(events, "abandon")
    /\ UNCHANGED <<cfg, orch, store, file, log, clock, session, frame, stream, harness>>

\* StreamDrained that extends the snapshot's live chat, not the fitted one
StreamDrainedFromSnapshot ==
    /\ pc = "stream"
    /\ stream.frags = <<>>
    /\ ~stream.raises
    /\ LET live_chat_after ==
               frame.state_before.continuity.live_chat
               \o << [role |-> "user", content |-> frame.user_input],
                     [role |-> "assistant", content |-> strip(frame.out_buf)] >>
           post_metrics == count_buckets(SYSTEM_PROMPT, frame.summary, live_chat_after,
                                         frame.injections, <<>>)
       IN  frame' = [frame EXCEPT
                        !.live_chat_after = live_chat_after,
                        !.post_metrics = post_metrics,
                        !.active_context = frame.state_before.continuity.active_context,
                        !.open_threads = frame.state_before.continuity.open_threads]
    /\ pc' = IF strip(frame.out_buf) = <<>> THEN "commit" ELSE "continuity"
    /\ events' = Append(events, "drained")
    /\ UNCHANGED <<cfg, orch, store, file, log, clock, session, stream, outcome, harness>>

\* the stream ends: lines 137-147, and _update_continuity up to its model call
StreamDrained ==
    /\ pc = "stream"
    /\ stream.frags = <<>>
    /\ ~stream.raises
    /\ LET live_chat_after ==
               frame.live_chat
               \o << [role |-> "user", content |-> frame.user_input],
                     [role |-> "assistant", content |-> strip(frame.out_buf)] >>
           post_metrics == count_buckets(SYSTEM_PROMPT, frame.summary, live_chat_after,
                                         frame.injections, <<>>)
       IN  frame' = [frame EXCEPT
                        !.live_chat_after = live_chat_after,
                        !.post_metrics = post_metrics,
                        !.active_context = frame.state_before.continuity.active_context,
                        !.open_threads = frame.state_before.continuity.open_threads]
    /\ pc' = IF strip(frame.out_buf) = <<>> THEN "commit" ELSE "continuity"
    /\ events' = Append(events, "drained")
    /\ UNCHANGED <<cfg, orch, store, file, log, clock, session, stream, outcome, harness>>

\* the model call of _update_continuity and what follows it
ContinuityCall(reply) ==
    /\ pc = "continuity"
    /\ LET u == update_continuity(frame.state_before, frame.user_input, reply) IN
       IF u.raised
       THEN Raised("continuity_raise") /\ UNCHANGED frame
       ELSE /\ frame' = [frame EXCEPT
                            !.active_context = u.active_context,
                            !.open_threads = u.open_threads,
                            !.continuity_reply =
                                IF reply.raises THEN "raises" ELSE reply.raw.kind]
            /\ events' = Append(events, "continuity_call")
            /\ pc' = "commit"
            /\ UNCHANGED outcome
    /\ UNCHANGED <<cfg, orch, store, file, log, clock, session, stream, harness>>

\* commit_args with last_context_rebuild=now_utc() in every turn
commit_args_always_stamps(f) ==
    [active_context |-> Some(f.active_context),
     open_threads |-> Some(f.open_threads),
     conversation_summary |-> Some(f.summary),
     live_chat |-> Some(f.live_chat_after),
     context_metrics |-> Some([pre |-> f.pre_metrics, fit |-> f.fit_metrics,
                               post |-> f.post_metrics,
                               rebuild_triggered |-> f.rebuilt]),
     last_context_rebuild |-> Some(clock)]

\* the keyword arguments of the turn's self.state.commit(...)
commit_args(f) ==
    [active_context |-> Some(f.active_context),
     open_threads |-> Some(f.open_threads),
     conversation_summary |-> Some(f.summary),
     live_chat |-> Some(f.live_chat_after),
     context_metrics |-> Some([pre |-> f.pre_metrics, fit |-> f.fit_metrics,
                               post |-> f.post_metrics,
                               rebuild_triggered |-> f.rebuilt]),
     last_context_rebuild |->
        IF f.rebuilt THEN Some(clock) ELSE f.state_before.meta.last_context_rebuild]

\* self.state.commit(...): the store changes and the record is written
Commit ==
    /\ pc = "commit"
    /\ store' = commit(store, commit_args(frame), clock)
    /\ file' = write(store')
    /\ events' = Append(events, "commit")
    /\ pc' = "audit"
    /\ UNCHANGED <<cfg, orch, log, clock, session, frame, stream, outcome, harness>>

\* TurnRecord(...).to_dict() of lines 172-183
turn_record(f, state_after) ==
    [ts_utc |-> clock, session_id |-> "session", turn_number |-> session,
     user_input |-> f.user_input, final_output |-> strip(f.out_buf),
     think |-> f.think, state_before |-> f.state_before,
     state_after |-> state_after]

\* AuditAppend that appends the record of a turn with state_after taken
\* before the commit
AuditAppendStale ==
    /\ pc = "audit"
    /\ log' = Append(log, turn_record(frame, frame.state_before))
    /\ events' = Append(events, "audit")
    /\ pc' = "idle"
    /\ outcome' = "committed"
    /\ UNCHANGED <<cfg, orch, store, file, clock, session, frame, stream, harness>>

\* state_after = snapshot(); self.logger.append(rec.to_dict()); the turn is over
AuditAppend ==
    /\ pc = "audit"
    /\ log' = Append(log, turn_record(frame, snapshot(store)))
    /\ events' = Append(events, "audit")
    /\ pc' = "idle"
    /\ outcome' = "committed"
    /\ UNCHANGED <<cfg, orch, store, file, clock, session, frame, stream, harness>>

Next ==
    \/ \E user_input \in UserInputs : BeginTurn(user_input)
    \/ \E reply \in SummaryReplies : CoarsePass(reply)
    \/ \E reply \in SummaryReplies : RefinePass(reply)
    \/ \E reply \in StageReplies : Stage1(reply)
    \/ \E reply \in StageReplies, tool_block \in ToolBlocks : Stage2(reply, tool_block)
    \/ \E reply \in StageReplies : Integrate(reply)
    \/ \E plan \in StreamPlans : ResponseCall(plan)
    \/ StreamFragment
    \/ StreamRaise
    \/ CallerAbandon
    \/ StreamDrained
    \/ \E reply \in ContinuityReplies : ContinuityCall(reply)
    \/ Commit
    \/ AuditAppend

Spec == Init /\ [][Next]_vars

\* ------------------------------------------------------------ the turn
Count(seq, x) == Cardinality({i \in 1..Len(seq) : seq[i] = x})

Last(seq) == seq[Len(seq)]

\* positions of an event in the current turn
At(x) == {i \in 1..Len(events) : events[i] = x}

\* the turn's snapshot is still what the store holds, in memory and on file,
\* and the audit log is as it was at turn start
NothingWritten ==
    /\ snapshot(store) = frame.state_before
    /\ file = frame.state_before
    /\ log = frame.log_before

\* the user-facing response call was made and the turn ended by its raising
\* or by the caller abandoning the stream
ResponseFailed ==
    /\ At("response_call") # {}
    /\ Last(events) \in {"response_raise", "abandon"}

\* C3: if the response call raises (before or during streaming) or the caller
\* abandons the stream, the turn is over without a commit: the exception
\* reaches the caller, the store in memory and on file equals the snapshot
\* taken at turn start, also when a rebuild ran, and the audit log is as it
\* was.
FailedResponseCommitsNothing ==
    ResponseFailed =>
        /\ pc = "idle"
        /\ outcome = (IF Last(events) = "response_raise" THEN "raised" ELSE "cancelled")
        /\ NothingWritten

\* a second turn whose rebuild ran and whose stream raised after a fragment
RebuiltThenStreamRaised ==
    /\ ResponseFailed
    /\ Last(events) = "response_raise"
    /\ frame.rebuilt
    /\ frame.summary # frame.state_before.continuity.conversation_summary
    /\ frame.yielded > 0
    /\ store.turn_counter = 1

\* C4: the continuity-update call, the commit and the audit append happen
\* only after the last fragment of the stream, in that order; until the
\* commit nothing is written, in particular not while fragments are yielded.
WritesFollowTheStream ==
    /\ (pc \notin {"idle", "audit"} => NothingWritten)
    /\ (pc = "audit" => log = frame.log_before)
    /\ \A j \in At("continuity_call") \cup At("commit") \cup At("audit") :
            /\ \A i \in At("fragment") : i < j
            /\ \E i \in At("drained") : i < j
    /\ \A i \in At("continuity_call"), j \in At("commit") : i < j
    /\ \A j \in At("audit") : \E i \in At("commit") : i < j

\* a committed turn that streamed fragments and made the continuity call
StreamedAndCommitted ==
    /\ outcome = "committed"
    /\ At("fragment") # {}
    /\ At("continuity_call") # {}
    /\ At("audit") # {}

\* the rebuild condition, measured on the snapshot and the new user input
RebuildDue ==
    LET c == frame.state_before.continuity
        m == count_buckets(SYSTEM_PROMPT, c.conversation_summary, c.live_chat,
                           frame.tool_context, frame.user_input)
    IN  m.live_chat_buffer > cfg.live_chat_target_tokens \/ m.pressure

TurnCommitted == pc = "audit" \/ (pc = "idle" /\ outcome = "committed")

\* C5: in every turn the rebuild runs if and only if, on the snapshot and the
\* new user input, the live-chat bucket exceeds live_chat_target_tokens or
\* pressure is true; its calls precede the response call; without it no
\* summarisation call is made and the committed summary is the prior one.
RebuildIffDue ==
    events # <<>> =>
        /\ (RebuildDue => pc \in {"coarse", "refine"} \/ frame.rebuilt)
        /\ (~RebuildDue => At("summary_call") = {} /\ ~frame.rebuilt)
        /\ (frame.rebuilt => Count(events, "summary_call") = 2)
        /\ \A i \in At("summary_call"), j \in At("response_call") : i < j
        /\ (At("response_call") # {} => (frame.rebuilt <=> RebuildDue))
        /\ (~RebuildDue /\ TurnCommitted =>
                file.continuity.conversation_summary
                    = frame.state_before.continuity.conversation_summary)

\* a committed turn rebuilt because of the live-chat target alone
RebuiltByTargetAlone ==
    /\ outcome = "committed"
    /\ frame.rebuilt
    /\ ~frame.pre_metrics.pressure
    /\ frame.pre_metrics.live_chat_buffer > cfg.live_chat_target_tokens

\* C6: whatever the chat client does in the two passes, raising in both
\* included, _rebuild_summary returns and no exception leaves it.
RebuildNeverRaises ==
    /\ At("summary_raise") = {}
    /\ (Count(events, "summary_call") = 2 => frame.rebuilt)
    /\ (events # <<>> /\ Last(events) = "summary_call" =>
            outcome = "running" /\ pc # "idle")

\* a rebuild that has just returned after both passes raised
RebuildReturnedAfterTwoFailures ==
    /\ events # <<>>
    /\ Last(events) = "summary_call"
    /\ frame.rebuilt
    /\ frame.summary_failures = 2

BothPassesFailed == TurnCommitted /\ frame.rebuilt /\ frame.summary_failures = 2

\* C7 as stated: if both summarisation calls fail, the committed
\* conversation_summary is the snapshot's conversation_summary.
BothPassesFailKeepsSummary ==
    BothPassesFailed =>
        file.continuity.conversation_summary
            = frame.state_before.continuity.conversation_summary

\* C7 as amended: if both summarisation calls fail, the committed
\* conversation_summary is the transcript rendered from the snapshot's summary
\* and live chat (headers included), cut to max(256, summary_target_tokens)
\* tokens.
BothPassesFailKeepsTranscript ==
    BothPassesFailed =>
        LET c == frame.state_before.continuity
            limit == IF cfg.summary_target_tokens > 256
                     THEN cfg.summary_target_tokens ELSE 256
        IN  /\ file.continuity.conversation_summary
                    = truncate_to_tokens(
                        render_chat_first_prompt(c.conversation_summary, c.live_chat,
                                                 <<>>, <<>>), limit)
            /\ (c.conversation_summary = <<>> /\ c.live_chat = <<>> =>
                    file.continuity.conversation_summary
                        = <<"Conversation Summary (non-authoritative):", NL, "(none)",
                            NL, NL, "Live Chat (recent turns):", NL, "(none)",
                            NL, NL, "Current User Input:">>)

\* a committed turn whose two passes failed over a non-empty live chat
BothPassesFailedOnLiveChat ==
    /\ BothPassesFailed
    /\ frame.state_before.continuity.live_chat # <<>>

\* C8: when the stream completes, failures of the summarisation calls and of
\* the continuity call (exception or malformed output) are not fatal: no
\* exception reaches the caller and the turn ends with exactly one commit
\* and one audit record.
AuxiliaryFailuresNotFatal ==
    At("drained") # {} =>
        /\ At("summary_raise") = {}
        /\ At("continuity_raise") = {}
        /\ outcome \in {"running", "committed"}
        /\ (pc = "idle" =>
                /\ outcome = "committed"
                /\ Count(events, "commit") = 1
                /\ Count(events, "audit") = 1
                /\ Len(log) = Len(frame.log_before) + 1
                /\ file.meta.turn_counter
                        = frame.state_before.meta.turn_counter + 1)

\* a committed turn in which both passes and the continuity call raised
CommittedDespiteAllFailures ==
    /\ outcome = "committed"
    /\ frame.summary_failures = 2
    /\ frame.continuity_reply = "raises"

TurnCounterInv ==
    /\ file.meta.turn_counter = store.turn_counter
    /\ file.meta.turn_counter = Len(log) + (IF pc = "audit" THEN 1 ELSE 0)
    /\ (outcome \in {"raised", "cancelled"} =>
            file.meta.turn_counter = frame.state_before.meta.turn_counter)
    /\ (outcome = "committed" =>
            file.meta.turn_counter = frame.state_before.meta.turn_counter + 1)

TurnCounterStep ==
    file'.meta.turn_counter
        = file.meta.turn_counter + (IF pc = "commit" /\ pc' = "audit" THEN 1 ELSE 0)

\* C9: the persisted turn_counter never decreases and grows by exactly 1 with
\* each committed turn: it equals the number of committed turns, and a turn
\* that fails or is cancelled leaves it as it was.
TurnCounterCountsCommits == []TurnCounterInv /\ [][TurnCounterStep]_vars

\* two turns committed
TwoTurnsCommitted ==
    /\ outcome = "committed"
    /\ file.meta.turn_counter = 2

\* the two entries a turn adds: the user input as given, the reply stripped
NewEntries ==
    << [role |-> "user", content |-> frame.user_input],
       [role |-> "assistant", content |-> strip(frame.out_buf)] >>

\* C10: a committed turn persists the fitted live chat, a suffix of the
\* pre-turn live chat, followed by the user turn and then the assistant turn
\* (its content the reply without surrounding whitespace); with no rebuild
\* and no eviction that is the whole pre-turn live chat plus the two, so the
\* length grows by exactly 2.
CommittedLiveChat ==
    TurnCommitted =>
        LET before == frame.state_before.continuity.live_chat
            after == file.continuity.live_chat
        IN  /\ IsSuffix(frame.live_chat, before)
            /\ after = frame.live_chat \o NewEntries
            /\ store.live_chat = after
            /\ (~frame.rebuilt /\ frame.evictions = 0 =>
                    /\ after = before \o NewEntries
                    /\ Len(after) = Len(before) + 2)

\* a committed turn whose fit kept a proper, non-empty part of the live chat
CommittedAfterEviction ==
    /\ outcome = "committed"
    /\ frame.live_chat # <<>>
    /\ Len(frame.live_chat) < Len(frame.state_before.continuity.live_chat)

\* ------------------------------------------------ fit_live_chat_to_budget
\* The fitting harness: fit_live_chat_to_budget applied to every live chat of
\* at most MaxFitLen turns over FitMessages, under every budget.
FitMessages ==
    { [role |-> "user", content |-> <<"a">>],
      [role |-> "assistant", content |-> <<SP>>],
      [role |-> "assistant", content |-> <<"b", SP, "c">>] }

SeqsUpTo(S, n) == UNION { [1..k -> S] : k \in 0..n }

FitCalls ==
    [conversation_summary : { <<>>, <<"s", "s">> },
     live_chat_messages : SeqsUpTo(FitMessages, MaxFitLen),
     tool_injections : { <<>>, <<"t", "t", "t">> },
     current_user_input : { <<>>, <<"i", "i">> }]

InitFit ==
    /\ cfg \in Budgets
    /\ orch = "runtime"
    /\ clock = 0
    /\ store = BobState(0)
    /\ file = write(BobState(0))
    /\ log = <<>>
    /\ session = 0
    /\ pc = "idle"
    /\ frame = NoFrame
    /\ stream = [frags |-> <<>>, raises |-> FALSE]
    /\ events = <<>>
    /\ outcome = "none"
    /\ harness_pc = "call"
    /\ call \in FitCalls
    /\ ret = [msgs |-> <<>>, metrics |-> NoMetrics, evictions |-> 0]

FitCall ==
    /\ harness_pc = "call"
    /\ ret' = fit_live_chat_to_budget(SYSTEM_PROMPT, call.conversation_summary,
                                      call.live_chat_messages, call.tool_injections,
                                      call.current_user_input)
    /\ harness_pc' = "done"
    /\ UNCHANGED <<cfg, orch, store, file, log, clock, session, pc, frame, stream, events, outcome, call>>

NextFit == FitCall

SpecFit == InitFit /\ [][NextFit]_vars

\* pressure of the call's buckets as they were handed in
CallPressure ==
    count_buckets(SYSTEM_PROMPT, call.conversation_summary, call.live_chat_messages,
                  call.tool_injections, call.current_user_input).pressure

\* C1: fit_live_chat_to_budget returns a suffix of the live chat it was given
\* (same turns, same order, unmodified), and on return either the metrics
\* report no pressure or the returned live chat is empty.
FitReturnsSuffix ==
    harness_pc = "done" =>
        /\ IsSuffix(ret.msgs, call.live_chat_messages)
        /\ (~ret.metrics.pressure \/ ret.msgs = <<>>)

\* a call under pressure that evicted some turns and kept others
FitEvictedSome ==
    /\ harness_pc = "done"
    /\ CallPressure
    /\ ret.msgs # <<>>
    /\ Len(ret.msgs) < Len(call.live_chat_messages)

\* C2: fit_live_chat_to_budget ends after at most len(live_chat_messages)
\* evictions, each removing one turn; called with an empty live chat while
\* the other buckets alone exceed the window it returns the empty live chat
\* with pressure = true, having evicted nothing.
FitTerminates ==
    harness_pc = "done" =>
        /\ ret.evictions <= Len(call.live_chat_messages)
        /\ Len(ret.msgs) + ret.evictions = Len(call.live_chat_messages)
        /\ (call.live_chat_messages = <<>> /\ CallPressure =>
                /\ ret.msgs = <<>>
                /\ ret.metrics.pressure
                /\ ret.evictions = 0)

\* an empty live chat handed in while the other buckets exceed the window
FitEmptyUnderPressure ==
    /\ harness_pc = "done"
    /\ call.live_chat_messages = <<>>
    /\ CallPressure
    /\ ret.metrics.pressure

\* ---------------------------------------------------------- keep_last_turns
\* every variable of the turn as Orchestrator.__init__ leaves it
Parked ==
    /\ orch = "runtime"
    /\ clock = 0
    /\ store = BobState(0)
    /\ file = write(BobState(0))
    /\ log = <<>>
    /\ session = 0
    /\ pc = "idle"
    /\ frame = NoFrame
    /\ stream = [frags |-> <<>>, raises |-> FALSE]
    /\ events = <<>>
    /\ outcome = "none"

turn_vars == <<cfg, orch, store, file, log, clock, session, pc, frame, stream, events, outcome>>

\* The harness: keep_last_turns applied to every message list of at most
\* MaxKeepLen entries and every turns argument in 0..MaxKeepTurns.
KeepMessages ==
    { [role |-> "user", content |-> <<"a">>],
      [role |-> "assistant", content |-> <<"b">>] }

InitKeep ==
    /\ cfg \in Budgets
    /\ Parked
    /\ harness_pc = "call"
    /\ call \in [messages : SeqsUpTo(KeepMessages, MaxKeepLen), turns : 0..MaxKeepTurns]
    /\ ret = <<>>

KeepCall ==
    /\ harness_pc = "call"
    /\ ret' = keep_last_turns(call.messages, call.turns)
    /\ harness_pc' = "done"
    /\ UNCHANGED <<turn_vars, call>>

NextKeep == KeepCall

SpecKeep == InitKeep /\ [][NextKeep]_vars

\* the last k entries of a sequence, all of it when it has fewer
LastEntries(seq, k) ==
    IF Len(seq) <= k THEN seq ELSE SubSeq(seq, Len(seq) - k + 1, Len(seq))

\* C12 as stated: for every message list and every n >= 0,
\* keep_last_turns(messages, n) is the last min(len(messages), 2n) entries of
\* messages, in order and unmodified.
KeepLastTurnsKeeps2n ==
    harness_pc = "done" => ret = LastEntries(call.messages, 2 * call.turns)

\* C12 as amended: keep_last_turns(messages, n) is the last
\* min(len(messages), 2 * max(1, n)) entries of messages, in order and
\* unmodified; n = 0 keeps up to two entries, as n = 1 does.
KeepLastTurnsKeepsAtLeastOnePair ==
    harness_pc = "done" =>
        /\ ret = LastEntries(call.messages,
                             2 * (IF call.turns >= 1 THEN call.turns ELSE 1))
        /\ IsSuffix(ret, call.messages)
        /\ (call.turns >= 1 => Len(ret) <= 2 * call.turns)
        /\ (call.turns = 0 => ret = keep_last_turns(call.messages, 1))

\* a list longer than 2n cut to its last 2n entries, n >= 1
KeepCutToLastPairs ==
    /\ harness_pc = "done"
    /\ call.turns >= 1
    /\ Len(call.messages) > 2 * call.turns
    /\ Len(ret) = 2 * call.turns

\* ------------------------------------------------------------ the long run
\* One store followed over LongTurns turns of the runtime orchestrator, so
\* that the live chat outgrows what a rebuild retains.  The budgets are those
\* of the first of Budgets, with live_chat_retain_turns_after_rebuild 1 and 0.
LongBudgets ==
    { [model_window_tokens |-> 24, summary_target_tokens |-> 4,
       live_chat_target_tokens |-> 8, reserved_buffer_tokens |-> 2,
       live_chat_retain_turns_after_rebuild |-> r] : r \in {0, 1} }

InitLong ==
    /\ cfg \in LongBudgets
    /\ Parked
    /\ harness_pc = "long"
    /\ call = <<>>
    /\ ret = <<>>

NextLong ==
    \/ BeginTurn(<<"hi">>)
    \/ \E reply \in SummaryReplies : CoarsePass(reply)
    \/ \E reply \in SummaryReplies : RefinePass(reply)
    \/ \E plan \in {p \in StreamPlans : p.frags # <<>>} : ResponseCall(plan)
    \/ StreamFragment
    \/ StreamRaise
    \/ CallerAbandon
    \/ StreamDrained
    \/ \E reply \in {r \in ContinuityReplies : r.raises} : ContinuityCall(reply)
    \/ Commit
    \/ AuditAppend

SpecLong == InitLong /\ [][NextLong]_vars

\* the rebuild of the current turn has run and the fit has been made
RebuildRan == events # <<>> /\ frame.rebuilt

\* C11 as stated: in a turn where the rebuild runs, the live chat handed to
\* the fit is the last min(len, 2 * retain_turns) entries of the pre-turn
\* live chat, and has 2 * retain_turns entries when the pre-turn live chat
\* has at least that many.
FitGetsLast2Retain ==
    RebuildRan =>
        LET before == frame.state_before.continuity.live_chat
            keep == 2 * cfg.live_chat_retain_turns_after_rebuild
        IN  /\ frame.fit_in = LastEntries(before, keep)
            /\ (Len(before) >= keep => Len(frame.fit_in) = keep)

\* C11 as amended: in a turn where the rebuild runs, the live chat handed to
\* the fit is the last min(len, 2 * max(1, retain_turns)) entries of the
\* pre-turn live chat, in order, and has exactly that many entries when the
\* pre-turn live chat has at least that many.
FitGetsLastRetainedPairs ==
    RebuildRan =>
        LET before == frame.state_before.continuity.live_chat
            r == cfg.live_chat_retain_turns_after_rebuild
            keep == 2 * (IF r >= 1 THEN r ELSE 1)
        IN  /\ frame.fit_in = LastEntries(before, keep)
            /\ (Len(before) >= keep => Len(frame.fit_in) = keep)
            /\ IsSuffix(frame.live_chat, frame.fit_in)

\* a rebuild over four entries that retained the last two
RebuildCutLiveChat ==
    /\ RebuildRan
    /\ cfg.live_chat_retain_turns_after_rebuild = 1
    /\ Len(frame.state_before.continuity.live_chat) = 4
    /\ Len(frame.fit_in) = 2

\* ------------------------------------------------------- whole exchanges
\* a live chat made of complete exchanges: user, assistant, user, assistant
WholePairs(chat) ==
    /\ Len(chat) % 2 = 0
    /\ \A i \in 1..Len(chat) :
            chat[i].role = (IF i % 2 = 1 THEN "user" ELSE "assistant")

\* C13: starting from an empty live chat, the live chat rendered into the
\* response prompt and the persisted live_chat always consist of complete
\* user+assistant pairs (even length, a user turn first, roles alternating):
\* no user turn is evicted while its assistant reply is kept.
LiveChatInWholePairs ==
    /\ WholePairs(file.continuity.live_chat)
    /\ WholePairs(store.live_chat)
    /\ (At("response_call") # {} => WholePairs(frame.live_chat))

\* ------------------------------------------------------------ count_buckets
\* The harness: count_buckets applied to every call of FitCalls under every
\* budget.
InitCount ==
    /\ cfg \in Budgets
    /\ Parked
    /\ harness_pc = "call"
    /\ call \in FitCalls
    /\ ret = NoMetrics

CountCall ==
    /\ harness_pc = "call"
    /\ ret' = count_buckets(SYSTEM_PROMPT, call.conversation_summary,
                            call.live_chat_messages, call.tool_injections,
                            call.current_user_input)
    /\ harness_pc' = "done"
    /\ UNCHANGED <<turn_vars, call>>

NextCount == CountCall

SpecCount == InitCount /\ [][NextCount]_vars

\* C14: count_buckets reports used_without_reserve as the sum of the system,
\* summary, live-chat, tool-injection and current-input buckets,
\* total_with_reserve as that plus reserved_buffer_tokens, and pressure
\* exactly when total_with_reserve is strictly greater than
\* model_window_tokens (not when they are equal).
BucketsAddUp ==
    harness_pc = "done" =>
        /\ ret.system_block = Len(SYSTEM_PROMPT)
        /\ ret.tool_injections = Len(call.tool_injections)
        /\ ret.live_chat_buffer = Len(format_live_chat(call.live_chat_messages))
        /\ ret.used_without_reserve
                = ret.system_block + ret.conversation_summary + ret.live_chat_buffer
                  + ret.tool_injections + ret.current_user_input
        /\ ret.total_with_reserve
                = ret.used_without_reserve + cfg.reserved_buffer_tokens
        /\ (ret.pressure <=> ret.total_with_reserve > cfg.model_window_tokens)
        /\ (ret.total_with_reserve = cfg.model_window_tokens => ~ret.pressure)

\* a call whose buckets and reserve fill the window exactly
WindowExactlyFull ==
    /\ harness_pc = "done"
    /\ ret.total_with_reserve = cfg.model_window_tokens
    /\ call.live_chat_messages # <<>>
    /\ ~ret.pressure

\* ---------------------------------------------------------- _rebuild_summary
\* The harness: one conversation_summary, the default one at first, rebuilt
\* up to MaxRebuilds times in a row; ret is the summary, call the arguments of
\* the last rebuild.  The model's replies include texts longer than the
\* largest summary limit.
Words(n) == [i \in 1..n |-> "w"]

RebuildReplies ==
    SummaryReplies
    \cup { [raises |-> FALSE, text |-> Words(n)] : n \in {256, 257, 301} }

RebuildLiveChats ==
    { <<>>,
      << [role |-> "user", content |-> <<"hi">>],
         [role |-> "assistant", content |-> <<"sure", "ok">>] >> }

InitRebuild ==
    /\ cfg \in Budgets
    /\ Parked
    /\ harness_pc = "call"
    /\ call = [n |-> 0, prior_summary |-> <<>>, live_chat |-> <<>>,
               coarse_reply |-> [raises |-> TRUE, text |-> <<>>],
               refine_reply |-> [raises |-> TRUE, text |-> <<>>]]
    /\ ret = BobState(0).conversation_summary

RebuildCall(live_chat, coarse_reply, refine_reply) ==
    /\ harness_pc = "call"
    /\ call.n < MaxRebuilds
    /\ ret' = rebuild_summary(ret, live_chat, coarse_reply, refine_reply)
    /\ call' = [n |-> call.n + 1, prior_summary |-> ret, live_chat |-> live_chat,
                coarse_reply |-> coarse_reply, refine_reply |-> refine_reply]
    /\ UNCHANGED <<turn_vars, harness_pc>>

NextRebuild ==
    \E live_chat \in RebuildLiveChats, coarse_reply \in RebuildReplies, refine_reply \in RebuildReplies :
        RebuildCall(live_chat, coarse_reply, refine_reply)

SpecRebuild == InitRebuild /\ [][NextRebuild]_vars

\* C15: starting from the default summary, after any sequence of rebuilds the
\* conversation_summary has at most max(256, summary_target_tokens) tokens.
SummaryWithinLimit ==
    LET limit == IF cfg.summary_target_tokens > 256
                 THEN cfg.summary_target_tokens ELSE 256
    IN  /\ Len(ret) <= limit
        /\ (call.n > 0 /\ ~call.refine_reply.raises =>
                ret = SubSeq(strip(call.refine_reply.text), 1,
                             IF Len(strip(call.refine_reply.text)) <= limit
                             THEN Len(strip(call.refine_reply.text)) ELSE limit))

\* a refined text longer than the limit was cut to exactly the limit, or a
\* transcript that outgrew the limit when both passes failed
SummaryCutAtLimit ==
    /\ call.n > 0
    /\ Len(ret) = (IF cfg.summary_target_tokens > 256
                   THEN cfg.summary_target_tokens ELSE 256)
    /\ call.refine_reply.raises
    /\ call.coarse_reply.raises
    /\ Len(rebuild_transcript(call.prior_summary, call.live_chat)) > Len(ret)

\* ------------------------------------------------------ _update_continuity
\* The harness: the continuity part of committed turns, one after the other
\* on one store that starts in the default state.  Each step takes the
\* snapshot, runs _update_continuity on a user input and on what the model
\* does, and commits the two lists; summary and live chat are committed as
\* they were.  call keeps the arguments of the last step, ret its result.
Sentence(w) == <<w, "?">>

UpdateInputs ==
    { <<"hi">>,
      <<SP, "where", "?", SP, "ok">>,
      <<"a", "?", SP, "a", "?">>,
      Sentence("q1") \o <<SP>> \o Sentence("q2") \o <<NL, SP>> \o Sentence("q3")
          \o <<SP>> \o Sentence("q4") }

NotStr == [isstr |-> FALSE, text |-> <<>>]

Reply(active_context, open_threads, resolved_threads) ==
    [raises |-> FALSE,
     raw |-> [kind |-> "object",
              data |-> [haskeys |-> TRUE, active_context |-> active_context,
                        open_threads |-> open_threads,
                        resolved_threads |-> resolved_threads]]]

\* items longer than 140 characters that differ only after the 137th
LongItem(tail) == Str(Words(138) \o tail)

UpdateReplies ==
    ContinuityReplies
    \cup { [raises |-> FALSE,
            raw |-> [kind |-> "object",
                     data |-> [haskeys |-> FALSE, active_context |-> NoList,
                               open_threads |-> NoList, resolved_threads |-> NoList]]],
           Reply(List(<<>>), List(<<Str(<<SP>>), NotStr>>), NoList),
           Reply(List(<<Str(<<"a1">>), Str(<<SP, "a1", NL>>), NotStr,
                        LongItem(<<"x", "y", "z">>), LongItem(<<"p", "q", "r">>),
                        Str(<<"a2">>), Str(<<"a3">>), Str(<<"a4">>), Str(<<"a5">>),
                        Str(<<"a6">>)>>),
                 List(<<Str(<<"t1">>), Str(<<"t2">>), Str(<<"T1">>), Str(<<"t3">>),
                        Str(<<"t4">>), Str(<<"t5">>)>>),
                 NoList) }

InitUpdate ==
    /\ cfg \in Budgets
    /\ Parked
    /\ harness_pc = "call"
    /\ call = [n |-> 0, state_before |-> snapshot(BobState(0)), user_input |-> <<>>,
               reply |-> [raises |-> TRUE, raw |-> [kind |-> "nojson"]]]
    /\ ret = [raised |-> FALSE, active_context |-> <<>>, open_threads |-> <<>>]

UpdateCall(user_input, reply) ==
    /\ harness_pc = "call"
    /\ call.n < MaxUpdates
    /\ LET state_before == snapshot(store)
           u == update_continuity(state_before, user_input, reply)
       IN  /\ ret' = u
           /\ call' = [n |-> call.n + 1, state_before |-> state_before,
                       user_input |-> user_input, reply |-> reply]
           /\ store' = commit(store,
                    [active_context |-> Some(u.active_context),
                     open_threads |-> Some(u.open_threads),
                     conversation_summary |-> Some(store.conversation_summary),
                     live_chat |-> Some(store.live_chat),
                     context_metrics |-> None,
                     last_context_rebuild |-> None], clock)
           /\ file' = write(store')
    /\ UNCHANGED <<cfg, orch, log, clock, session, pc, frame, stream, events, outcome, harness_pc>>

NextUpdate ==
    \E user_input \in UpdateInputs, reply \in UpdateReplies : UpdateCall(user_input, reply)

SpecUpdate == InitUpdate /\ [][NextUpdate]_vars

PriorActive == call.state_before.continuity.active_context

PriorThreads == call.state_before.continuity.open_threads

\* the first three "?"-terminated sentences of the step's user input
FirstSentences ==
    CASE call.user_input = <<"hi">> -> <<>>
      [] call.user_input = <<SP, "where", "?", SP, "ok">> -> <<Sentence("where")>>
      [] call.user_input = <<"a", "?", SP, "a", "?">> -> <<Sentence("a"), Sentence("a")>>
      [] OTHER -> <<Sentence("q1"), Sentence("q2"), Sentence("q3")>>

\* those of FirstSentences that are not in the prior open_threads
SentencesNotInPrior ==
    LET fresh(q) == ~Contains(PriorThreads, q)
    IN  SelectSeq(FirstSentences, fresh)

\* those of FirstSentences that are not in the prior open_threads, each once
SentencesNotYetListed ==
    LET qs == FirstSentences
        first(i) == ~Contains(PriorThreads, qs[i]) /\ \A j \in 1..(i - 1) : qs[j] # qs[i]
        kept == SelectSeq([i \in 1..Len(qs) |-> i], first)
    IN  [k \in 1..Len(kept) |-> qs[kept[k]]]

\* the last step's model call raised / returned text without a JSON object
CallRaised == call.n > 0 /\ call.reply.raises

CallNoJson == call.n > 0 /\ ~call.reply.raises /\ call.reply.raw.kind = "nojson"

\* the last step's model call returned an object whose active_context and
\* open_threads are both empty once cleaned
CallBothEmpty ==
    /\ call.n > 0
    /\ ~call.reply.raises
    /\ call.reply.raw.kind = "object"
    /\ call.reply.raw.data.haskeys
    /\ clean_continuity_list(call.reply.raw.data.active_context, 6) = <<>>
    /\ clean_continuity_list(call.reply.raw.data.open_threads, 4) = <<>>

\* C16: if the chat client raises in the continuity call, the outcome is that
\* of the malformed-output fallback: the prior active_context, and the prior
\* open_threads with the "?"-terminated sentences of the user input appended.
RaiseFallsBackLikeMalformed ==
    CallRaised =>
        LET malformed == update_continuity(call.state_before, call.user_input,
                                           [raises |-> FALSE, raw |-> [kind |-> "nojson"]])
        IN  /\ ret.active_context = malformed.active_context
            /\ ret.open_threads = malformed.open_threads
            /\ file.continuity.open_threads = PriorThreads \o SentencesNotYetListed

\* C17: whenever the model's update reports both an empty active_context and
\* an empty open_threads, the update is discarded whatever the prior state:
\* active_context is the prior one and open_threads is the prior list plus
\* the "?"-terminated sentences of the user input.
BothEmptyFallsBack ==
    CallBothEmpty =>
        /\ ret.active_context = PriorActive
        /\ file.continuity.active_context = PriorActive
        /\ ret.open_threads = PriorThreads \o SentencesNotYetListed

\* C18 as stated: with no parseable JSON object in the response,
\* active_context is the prior one and open_threads is the prior list
\* followed, in input order, by those of the first 3 "?"-terminated
\* sentences of the user input that are not in the prior list.
NoJsonAppendsSentencesNotInPrior ==
    CallNoJson =>
        /\ ret.active_context = PriorActive
        /\ ret.open_threads = PriorThreads \o SentencesNotInPrior

\* C18 as amended: with no parseable JSON object in the response,
\* active_context is the prior one and open_threads is the prior list
\* followed, in input order, by those of the first 3 "?"-terminated
\* sentences of the user input that are neither in the prior list nor equal
\* to a sentence appended before them; nothing else is added or removed.
NoJsonAppendsSentencesOnce ==
    CallNoJson =>
        /\ ret.active_context = PriorActive
        /\ ret.open_threads = PriorThreads \o SentencesNotYetListed
        /\ file.continuity.active_context = ret.active_context
        /\ file.continuity.open_threads = ret.open_threads

\* a fallback that appended three of four sentences to a non-empty list
FallbackAppendedThree ==
    /\ CallNoJson
    /\ PriorThreads # <<>>
    /\ Len(FirstSentences) = 3
    /\ Len(ret.open_threads) = Len(PriorThreads) + 3

\* C19: starting from the default state, whatever the model returns or
\* raises in the continuity call, the persisted open_threads has at most 4
\* entries.
OpenThreadsAtMostFour ==
    /\ Len(file.continuity.open_threads) <= 4
    /\ Len(store.open_threads) <= 4

\* C20: starting from the default state, whatever the model returns, the
\* persisted active_context has at most 6 entries, each at most 140
\* characters long, and no two entries are equal.
ActiveContextBounded ==
    LET ac == file.continuity.active_context IN
    /\ store.active_context = ac
    /\ Len(ac) <= 6
    /\ \A i \in 1..Len(ac) : Len(ac[i]) <= 140
    /\ \A i, j \in 1..Len(ac) : i # j => ac[i] # ac[j]

\* six entries kept of more, one of them cut to 140 characters
ActiveContextFull ==
    LET ac == file.continuity.active_context IN
    /\ call.n > 0
    /\ Len(ac) = 6
    /\ \E i \in 1..6 : Len(ac[i]) = 140 /\ SubSeq(ac[i], 138, 140) = <<".", ".", ".">>

\* ------------------------------------------------------------------------
\* The merge harness: continuity updates committed one after another on the
\* store, among them the update that echoes the prior state (its
\* active_context, no open threads, no resolved threads) and updates that
\* report resolved threads.
MaxMerges == 3

MergeInputs == { <<"hi">>, Sentence("T1") }

\* the structured update that reports S.active_context and two empty lists
EchoReply(S) ==
    Reply(List([i \in 1..Len(S.continuity.active_context) |->
                    Str(S.continuity.active_context[i])]),
          List(<<>>), List(<<>>))

MergeReplies ==
    { [raises |-> FALSE, raw |-> [kind |-> "nojson"]],
      Reply(List(<<Str(<<"a1">>)>>),
            List(<<Str(Sentence("t1")), Str(<<"t2">>)>>), NoList),
      Reply(List(<<Str(<<"a1">>)>>),
            List(<<Str(<<"t2">>), Str(<<"t3">>)>>),
            List(<<Str(<<SP, "T1", "?", NL>>), Str(<<"t3">>)>>)),
      Reply(List(<<Str(<<"a2">>)>>), List(<<>>),
            List(<<Str(<<"x1">>), Str(<<"x2">>), Str(<<"x3">>), Str(<<"x4">>),
                   Str(<<"t2">>)>>)),
      Reply(List(<<>>), List(<<>>), List(<<Str(<<"t2">>)>>)) }

InitMerge ==
    /\ cfg \in Budgets
    /\ Parked
    /\ harness_pc = "merge"
    /\ call = [n |-> 0, echo |-> FALSE, state_before |-> snapshot(BobState(0)),
               user_input |-> <<>>,
               reply |-> [raises |-> FALSE, raw |-> [kind |-> "nojson"]]]
    /\ ret = [raised |-> FALSE, active_context |-> <<>>, open_threads |-> <<>>]

\* one continuity update on the store's snapshot, committed and written
MergeStep(user_input, reply, echo) ==
    /\ harness_pc = "merge"
    /\ call.n < MaxMerges
    /\ LET state_before == snapshot(store)
           u == update_continuity(state_before, user_input, reply)
       IN  /\ ret' = u
           /\ call' = [n |-> call.n + 1, echo |-> echo, state_before |-> state_before,
                       user_input |-> user_input, reply |-> reply]
           /\ store' = commit(store,
                    [active_context |-> Some(u.active_context),
                     open_threads |-> Some(u.open_threads),
                     conversation_summary |-> Some(store.conversation_summary),
                     live_chat |-> Some(store.live_chat),
                     context_metrics |-> None,
                     last_context_rebuild |-> None], clock)
           /\ file' = write(store')
    /\ UNCHANGED <<cfg, orch, log, clock, session, pc, frame, stream, events, outcome, harness_pc>>

MergeCall(user_input, reply) == MergeStep(user_input, reply, FALSE)

EchoCall(user_input) == MergeStep(user_input, EchoReply(snapshot(store)), TRUE)

NextMerge ==
    \/ \E user_input \in MergeInputs, reply \in MergeReplies : MergeCall(user_input, reply)
    \/ \E user_input \in MergeInputs : EchoCall(user_input)

SpecMerge == InitMerge /\ [][NextMerge]_vars

\* seq without the entries whose normalised text (stripped, lower-cased,
\* whitespace collapsed) is that of an earlier entry
DedupNorm(seq) ==
    LET first(i) == \A j \in 1..(i - 1) : norm(seq[j]) # norm(seq[i])
        kept == SelectSeq([i \in 1..Len(seq) |-> i], first)
    IN  [k \in 1..Len(kept) |-> seq[kept[k]]]

\* C21: from a prior state S with at most 4 open threads and a non-empty
\* active_context, the structured update that reports S.active_context, no
\* open threads and no resolved threads leaves active_context as it was and
\* gives S.open_threads in its order without the entries that repeat an
\* earlier one (compared by normalised text).
EchoKeepsPriorThreads ==
    (call.n > 0 /\ call.echo /\ Len(PriorThreads) <= 4 /\ PriorActive # <<>>) =>
        /\ ret.open_threads = DedupNorm(PriorThreads)
        /\ ret.active_context = PriorActive
        /\ file.continuity.open_threads = ret.open_threads
        /\ file.continuity.active_context = PriorActive

\* an echo applied to a prior list that repeats a thread
EchoDroppedDuplicate ==
    /\ call.n > 0
    /\ call.echo
    /\ PriorActive # <<>>
    /\ Len(PriorThreads) <= 4
    /\ Len(ret.open_threads) < Len(PriorThreads)
    /\ Len(ret.open_threads) >= 2


\* the string entries of the update's resolved_threads
ReportedResolved ==
    LET v == call.reply.raw.data.resolved_threads
        isstr(item) == item.isstr
        strs == SelectSeq(v.items, isstr)
    IN  IF v.islist THEN [i \in 1..Len(strs) |-> strs[i].text] ELSE <<>>

\* the prior threads the merge carries forward: those whose normalised text
\* is not that of one of the first four cleaned resolved threads, each once
CarriedForward ==
    LET resolved == clean_continuity_list(call.reply.raw.data.resolved_threads, 4)
        open(t) == norm(t) \notin NormSet(resolved)
    IN  DedupNorm(SelectSeq(PriorThreads, open))

\* the last step's update was structured and applied: an object with keys
\* that is not discarded, i.e. its cleaned active_context, its cleaned
\* open_threads and the prior threads carried forward are not all empty
StructuredApplied ==
    /\ call.n > 0
    /\ ~call.reply.raises
    /\ call.reply.raw.kind = "object"
    /\ call.reply.raw.data.haskeys
    /\ ~(/\ clean_continuity_list(call.reply.raw.data.active_context, 6) = <<>>
         /\ clean_continuity_list(call.reply.raw.data.open_threads, 4) = <<>>
         /\ CarriedForward = <<>>)

\* C22 as stated: after a structured update no resulting open thread has
\* the normalised text of one of the update's resolved threads, whether it
\* was carried forward or newly reported.
NoResolvedThreadStaysOpen ==
    StructuredApplied =>
        \A i \in 1..Len(ret.open_threads) :
            norm(ret.open_threads[i]) \notin NormSet(ReportedResolved)

\* C22 as amended: after a structured update that is applied, the resulting
\* open_threads starts with the prior threads whose normalised text is not
\* that of one of the first four resolved threads of the update (each once,
\* cut to four), so no carried-forward entry is resolved; the entries after
\* them are newly reported threads, which are kept even when the same
\* update lists them as resolved.
NoCarriedThreadIsResolved ==
    StructuredApplied =>
        LET P == CarriedForward
            k == Min(Len(P), 4)
            resolved == clean_continuity_list(call.reply.raw.data.resolved_threads, 4)
            new == clean_continuity_list(call.reply.raw.data.open_threads, 4)
        IN  /\ Len(ret.open_threads) >= k
            /\ SubSeq(ret.open_threads, 1, k) = SubSeq(P, 1, k)
            /\ \A i \in 1..k : norm(ret.open_threads[i]) \notin NormSet(resolved)
            /\ \A i \in (k + 1)..Len(ret.open_threads) : Contains(new, ret.open_threads[i])
            /\ file.continuity.open_threads = ret.open_threads

\* a prior thread was dropped as resolved while a newly reported thread,
\* resolved in the same update, was appended
ResolvedDroppedAndNewKept ==
    /\ StructuredApplied
    /\ \E i \in 1..Len(PriorThreads) : norm(PriorThreads[i]) \in NormSet(ReportedResolved)
    /\ Len(CarriedForward) < Len(DedupNorm(PriorThreads))
    /\ \E i \in 1..Len(ret.open_threads) :
           norm(ret.open_threads[i]) \in NormSet(ReportedResolved)


\* ------------------------------------------------------------------------
\* The commit harness: StateStore.commit called with one keyword, with the
\* keywords of an orchestrator turn, with none, one call after another.
MaxCommits == 2

NoArgs ==
    [active_context |-> None, open_threads |-> None, affect_state |-> None,
     integrity |-> None, tone_active |-> None, conversation_summary |-> None,
     live_chat |-> None, context_metrics |-> None, last_context_rebuild |-> None]

CommitArgs ==
    { NoArgs,
      [NoArgs EXCEPT !.active_context = Some(<< <<"a1">> >>)],
      [NoArgs EXCEPT !.open_threads = Some(<< <<"t1">> >>)],
      [NoArgs EXCEPT !.active_context = Some(<<>>), !.open_threads = Some(<<>>)],
      [NoArgs EXCEPT !.affect_state =
          Some([curiosity |-> Some(150), calm |-> Some(0 - 5), tension |-> None])],
      [NoArgs EXCEPT !.affect_state =
          Some([curiosity |-> Some(10), calm |-> Some(90), confidence |-> Some(0),
                tension |-> Some(100), engagement |-> Some(50)])],
      [NoArgs EXCEPT !.integrity = Some([contradictions_detected |-> TRUE])],
      [NoArgs EXCEPT !.tone_active = Some("playful")],
      [NoArgs EXCEPT !.tone_active = Some("")],
      [NoArgs EXCEPT !.conversation_summary = Some(<<"sum">>)],
      [NoArgs EXCEPT !.conversation_summary = Some(<<>>)],
      [NoArgs EXCEPT !.live_chat =
          Some(<<[role |-> "user", content |-> <<"hi">>],
                 [role |-> "assistant", content |-> <<"sure">>]>>)],
      [NoArgs EXCEPT !.context_metrics = Some([rebuild_triggered |-> TRUE])],
      [NoArgs EXCEPT !.last_context_rebuild = Some(7)],
      [NoArgs EXCEPT !.active_context = Some(<< <<"a2">> >>),
                     !.open_threads = Some(<< <<"t2">> >>),
                     !.conversation_summary = Some(<<"s2">>),
                     !.live_chat = Some(<<[role |-> "user", content |-> <<"yo">>]>>),
                     !.context_metrics = Some([rebuild_triggered |-> FALSE])] }

InitCommit ==
    /\ cfg \in Budgets
    /\ Parked
    /\ harness_pc = "commit"
    /\ call = [n |-> 0, before |-> snapshot(BobState(0)), args |-> NoArgs]
    /\ ret = snapshot(BobState(0))

\* snapshot(), commit(**args), snapshot()
CommitCall(args) ==
    /\ harness_pc = "commit"
    /\ call.n < MaxCommits
    /\ clock' = clock + 1
    /\ store' = commit(store, args, clock')
    /\ file' = write(store')
    /\ call' = [n |-> call.n + 1, before |-> snapshot(store), args |-> args]
    /\ ret' = snapshot(store')
    /\ UNCHANGED <<cfg, orch, log, session, pc, frame, stream, events, outcome, harness_pc>>

NextCommit == \E args \in CommitArgs : CommitCall(args)

SpecCommit == InitCommit /\ [][NextCommit]_vars

\* the value after the call of a field given as arg (None when not passed)
Replaced(arg, before, after) ==
    IF arg # None THEN after = arg[1] ELSE after = before

\* C23: after commit, snapshot() shows each field that was passed with the
\* value passed (an affect_state within [0, 1], equal to the numbers passed
\* that are in range), turn_counter one higher and last_updated set to the
\* time of the commit, and every field that was not passed, identity,
\* affect_state and integrity among them, exactly as before the call.
CommitReplacesOnlyPassedFields ==
    call.n > 0 =>
        LET b == call.before
            a == ret
            g == call.args
        IN  /\ Replaced(g.active_context, b.continuity.active_context,
                        a.continuity.active_context)
            /\ Replaced(g.open_threads, b.continuity.open_threads,
                        a.continuity.open_threads)
            /\ Replaced(g.conversation_summary, b.continuity.conversation_summary,
                        a.continuity.conversation_summary)
            /\ Replaced(g.live_chat, b.continuity.live_chat, a.continuity.live_chat)
            /\ a.meta.last_context_rebuild =
                  (IF g.last_context_rebuild # None THEN g.last_context_rebuild
                   ELSE b.meta.last_context_rebuild)
            /\ a.meta.context_metrics =
                  (IF g.context_metrics # None THEN g.context_metrics
                   ELSE b.meta.context_metrics)
            /\ IF g.affect_state = None THEN a.affect_state = b.affect_state
               ELSE \A k \in DOMAIN a.affect_state :
                       /\ a.affect_state[k] \in 0..100
                       /\ LET x == Get(g.affect_state[1], k) IN
                          (x # None /\ x[1] \in 0..100) => a.affect_state[k] = x[1]
            /\ IF g.integrity = None THEN a.continuity.integrity = b.continuity.integrity
               ELSE \A k \in DOMAIN g.integrity[1] :
                       a.continuity.integrity[k] = g.integrity[1][k]
            /\ \A k \in DOMAIN a.identity :
                  a.identity[k] = (IF k = "tone_active" /\ g.tone_active # None
                                   THEN g.tone_active[1] ELSE b.identity[k])
            /\ a.meta.turn_counter = b.meta.turn_counter + 1
            /\ a.meta.last_updated_utc = Some(clock)
            /\ a.meta.last_updated_utc # b.meta.last_updated_utc
            /\ file = a
            /\ snapshot(store) = a

\* a commit with the keywords of an orchestrator turn on a store whose
\* affect_state, integrity and tone were changed by an earlier commit
TurnCommitKeptSubrecords ==
    /\ call.n = 2
    /\ call.args.conversation_summary = Some(<<"s2">>)
    /\ call.args.affect_state = None
    /\ call.before.affect_state # AffectState
    /\ ret.affect_state = call.before.affect_state
    /\ ret.continuity.conversation_summary = <<"s2">>


\* ------------------------------------------------------------------------
\* The restart harness: a process constructs the StateStore on whatever the
\* file holds, commits, and stops at any point, also between the open(path,
\* "w") of _write and the end of json.dump; the next process constructs the
\* store on what is left.  harness_pc is "down" (no process), "up", or
\* "writing" (inside _write); events lists the steps taken.
MaxRestarts == 3

InitialContents ==
    { NoFile, NotJson, JsonNonObject, <<>>,
      [meta |-> [turn_counter |-> 3]],
      [identity |-> WrongType],
      [continuity |-> WrongType, meta |-> [turn_counter |-> 3]],
      write([BobState(0) EXCEPT !.turn_counter = 1,
                                !.conversation_summary = <<"sum">>]) }

RestartArgs ==
    { NoArgs,
      [NoArgs EXCEPT !.tone_active = Some("")],
      [NoArgs EXCEPT !.affect_state = Some([curiosity |-> Some(150), calm |-> Some(40)])],
      [NoArgs EXCEPT !.active_context = Some(<< <<"a2">> >>),
                     !.open_threads = Some(<< <<"t2">> >>),
                     !.conversation_summary = Some(<<"s2">>),
                     !.live_chat = Some(<<[role |-> "user", content |-> <<"yo">>]>>),
                     !.context_metrics = Some([rebuild_triggered |-> FALSE])] }

InitRestart ==
    /\ cfg \in Budgets
    /\ orch = "runtime"
    /\ clock = 0
    /\ store = BobState(0)
    /\ file \in InitialContents
    /\ log = <<>>
    /\ session = 0
    /\ pc = "idle"
    /\ frame = NoFrame
    /\ stream = [frags |-> <<>>, raises |-> FALSE]
    /\ events = <<>>
    /\ outcome = "none"
    /\ harness_pc = "down"
    /\ call = [commits |-> 0, restarts |-> 0, content |-> NoFile, pre |-> NoFile,
               post |-> NoFile, snap |-> snapshot(BobState(0)), args |-> NoArgs]
    /\ ret = [raised |-> FALSE, snapshot |-> snapshot(BobState(0))]

\* StateStore(path, ...): _load_or_init on the file
Construct ==
    /\ harness_pc = "down"
    /\ call.restarts < MaxRestarts
    /\ LET r == load_or_init(file, clock) IN
       /\ store' = (IF r.raised THEN store ELSE r.state)
       /\ file' = r.file
       /\ harness_pc' = (IF r.raised THEN "down" ELSE "up")
       /\ ret' = [raised |-> r.raised,
                  snapshot |-> IF r.raised THEN ret.snapshot ELSE snapshot(r.state)]
    /\ call' = [call EXCEPT !.restarts = @ + 1, !.content = file]
    /\ events' = Append(events, "construct")
    /\ UNCHANGED <<cfg, orch, log, clock, session, pc, frame, stream, outcome>>

\* commit up to the open(self.path, "w") of _write: the state is changed in
\* memory and the file is cut to nothing, then filled as json.dump goes
CommitBegin(args) ==
    /\ harness_pc = "up"
    /\ call.commits < MaxCommits
    /\ clock' = clock + 1
    /\ store' = commit(store, args, clock')
    /\ file' = NotJson
    /\ harness_pc' = "writing"
    /\ call' = [call EXCEPT !.commits = @ + 1, !.pre = file, !.post = write(store'),
                            !.args = args]
    /\ events' = Append(events, "begin")
    /\ UNCHANGED <<cfg, orch, log, session, pc, frame, stream, outcome, ret>>

\* json.dump has written the whole record and the file is closed
CommitEnd ==
    /\ harness_pc = "writing"
    /\ file' = write(store)
    /\ harness_pc' = "up"
    /\ call' = [call EXCEPT !.snap = snapshot(store)]
    /\ events' = Append(events, "end")
    /\ UNCHANGED <<cfg, orch, store, log, clock, session, pc, frame, stream, outcome, ret>>

\* the process stops; what it held in memory is gone
Stop ==
    /\ harness_pc \in {"up", "writing"}
    /\ harness_pc' = "down"
    /\ events' = Append(events, "stop")
    /\ UNCHANGED <<cfg, orch, store, file, log, clock, session, pc, frame, stream, outcome, call, ret>>

NextRestart ==
    \/ Construct
    \/ \E args \in RestartArgs : CommitBegin(args)
    \/ CommitEnd
    \/ Stop

SpecRestart == InitRestart /\ [][NextRestart]_vars

\* the last k steps taken are those of steps
EndsWith(steps) ==
    /\ Len(events) >= Len(steps)
    /\ SubSeq(events, Len(events) - Len(steps) + 1, Len(events)) = steps

\* C24: a store constructed on the file right after a commit gives the
\* snapshot the committing store gave after that commit, every field of
\* identity and affect_state included.
ReloadYieldsSameSnapshot ==
    EndsWith(<<"end", "stop", "construct">>) =>
        /\ ~ret.raised
        /\ ret.snapshot = call.snap


\* C25: whenever the process has stopped after it began a commit, the file
\* holds the complete record of before that commit or the complete record
\* the commit writes, so the next construction loads one of the two and
\* never reinitialises to defaults.
InterruptedCommitLeavesWholeRecord ==
    /\ (harness_pc = "down" /\ call.commits > 0 /\ EndsWith(<<"stop">>)) =>
            file \in {call.pre, call.post}
    /\ (call.commits > 0 /\ EndsWith(<<"stop", "construct">>)) =>
            /\ call.content \in {call.pre, call.post}
            /\ file = call.content
            /\ ret.snapshot.meta.turn_counter > 0

\* the record cannot be read as a state: it is not JSON (unreadable, empty,
\* cut short), not a JSON object, or an object with an entry that should be
\* an object and is not
Unloadable(content) ==
    \/ content \in {NotJson, JsonNonObject}
    \/ \E k \in DOMAIN content \cap {"identity", "affect_state", "continuity", "meta"} :
           content[k] = WrongType

\* C27: constructing a StateStore never fails, whatever the file holds.
\* With no file the default state, turn_counter 0, is created and written;
\* with a record that cannot be read as a state the default state is
\* created and written over it; otherwise the file is left as it is and the
\* state holds the stored fields (defaults where the object has none).
ConstructNeverFails ==
    EndsWith(<<"construct">>) =>
        /\ ~ret.raised
        /\ harness_pc = "up"
        /\ ret.snapshot = snapshot(store)
        /\ IF call.content = NoFile \/ Unloadable(call.content)
           THEN /\ store = BobState(clock)
                /\ store.turn_counter = 0
                /\ file = write(store)
           ELSE /\ file = call.content
                /\ \A k \in DOMAIN call.content \cap {"continuity", "meta"} :
                      \A f \in DOMAIN call.content[k] : ret.snapshot[k][f] = call.content[k][f]
                /\ "affect_state" \in DOMAIN call.content =>
                      ret.snapshot.affect_state = call.content.affect_state
                /\ "identity" \in DOMAIN call.content =>
                      \A f \in DOMAIN call.content.identity :
                          call.content.identity[f] # "" =>
                              ret.snapshot.identity[f] = call.content.identity[f]

\* a store constructed on a record that could not be read as a state
ReinitialisedOverBadRecord ==
    /\ EndsWith(<<"construct">>)
    /\ Unloadable(call.content)
    /\ ~ret.raised
    /\ file = write(BobState(clock))
    /\ file # call.content


\* ------------------------------------------------------------------------
\* The object harness: the message dicts of live_chat as objects with an
\* identity.  ret.heap holds the content of every object, ret.state is the
\* list self._state.live_chat (the addresses of its dicts), ret.snaps the
\* live_chat lists of the snapshots returned so far, and ret.handed says of
\* each snapshot whether its dicts were passed on to commit.  call records
\* the last operation and the values before it.
MaxSnapshots == 2
MaxObjectSteps == 4
MaxChatLen == 2

\* snapshot() without deepcopy: to_dict's list(self.live_chat) alone, a new
\* list of the same dicts
snapshot_objects_shallow(heap, state) == [heap |-> heap, addrs |-> state]

\* snapshot(): deepcopy(self._state.to_dict()) makes a new dict, at a new
\* address, for every dict of the list
snapshot_objects(heap, state) ==
    [heap |-> heap \o [i \in 1..Len(state) |-> heap[state[i]]],
     addrs |-> [i \in 1..Len(state) |-> Len(heap) + i]]

\* the content of the dicts a list holds
Value(heap, addrs) == [i \in 1..Len(addrs) |-> heap[addrs[i]]]

SnapValues(r) == [k \in 1..Len(r.snaps) |-> Value(r.heap, r.snaps[k])]

InitObjects ==
    /\ cfg \in Budgets
    /\ Parked
    /\ harness_pc = "objects"
    /\ ret = [heap |-> <<"hi">>, state |-> <<1>>, snaps |-> <<>>, handed |-> <<>>]
    /\ call = [n |-> 0, op |-> "none", k |-> 0, state_before |-> <<"hi">>,
               snaps_before |-> <<>>]

Did(op, k) ==
    [n |-> call.n + 1, op |-> op, k |-> k,
     state_before |-> Value(ret.heap, ret.state), snaps_before |-> SnapValues(ret)]

\* s = store.snapshot()
SnapshotCall ==
    /\ harness_pc = "objects"
    /\ call.n < MaxObjectSteps
    /\ Len(ret.snaps) < MaxSnapshots
    /\ LET c == snapshot_objects(ret.heap, ret.state) IN
       ret' = [ret EXCEPT !.heap = c.heap, !.snaps = Append(@, c.addrs),
                          !.handed = Append(@, FALSE)]
    /\ call' = Did("snapshot", Len(ret.snaps) + 1)
    /\ UNCHANGED <<turn_vars, harness_pc>>

\* the caller assigns to a key of the i-th message dict of snapshot k
MutateSnapshot(k, i) ==
    /\ harness_pc = "objects"
    /\ call.n < MaxObjectSteps
    /\ k \in 1..Len(ret.snaps)
    /\ i \in 1..Len(ret.snaps[k])
    /\ ret' = [ret EXCEPT !.heap[ret.snaps[k][i]] = "edited"]
    /\ call' = Did("mutate", k)
    /\ UNCHANGED <<turn_vars, harness_pc>>

\* the commit of run_turn_stream: live_chat_after is a new list of the
\* dicts of the turn's snapshot plus the two new dicts of the turn, and
\* commit keeps list(live_chat), a new list of those same dicts
CommitTurn(k) ==
    /\ harness_pc = "objects"
    /\ call.n < MaxObjectSteps
    /\ k \in 1..Len(ret.snaps)
    /\ Len(ret.snaps[k]) < MaxChatLen
    /\ ret' = [ret EXCEPT !.heap = @ \o <<"ask", "reply">>,
                          !.state = ret.snaps[k] \o <<Len(ret.heap) + 1, Len(ret.heap) + 2>>,
                          !.handed[k] = TRUE]
    /\ call' = Did("commit", k)
    /\ UNCHANGED <<turn_vars, harness_pc>>

NextObjects ==
    \/ SnapshotCall
    \/ \E k \in 1..MaxSnapshots, i \in 1..MaxChatLen : MutateSnapshot(k, i)
    \/ \E k \in 1..MaxSnapshots : CommitTurn(k)

SpecObjects == InitObjects /\ [][NextObjects]_vars

\* every snapshot other than k has the value it had before the last step
OtherSnapshotsKept(k) ==
    \A j \in 1..Len(call.snaps_before) :
        j # k => Value(ret.heap, ret.snaps[j]) = call.snaps_before[j]

StateKept == Value(ret.heap, ret.state) = call.state_before

\* C26 as stated: assigning into a returned snapshot, its nested dicts
\* included, never changes the store's state, and a commit does not alter
\* the snapshots taken before it.
SnapshotMutationNeverReachesStore ==
    /\ call.op = "mutate" => (StateKept /\ OtherSnapshotsKept(call.k))
    /\ call.op = "commit" => OtherSnapshotsKept(0)

\* C26 as amended: snapshot() returns new objects that hold the state's
\* values and leaves the state and the earlier snapshots as they were; a
\* commit does not alter any snapshot taken before it; assigning into a
\* snapshot changes no other snapshot, and it leaves the store's state
\* unchanged as long as the dicts of that snapshot were not passed to commit.
SnapshotIndependentUntilHandedToCommit ==
    /\ call.op = "snapshot" =>
          /\ Value(ret.heap, ret.snaps[call.k]) = Value(ret.heap, ret.state)
          /\ StateKept
          /\ OtherSnapshotsKept(call.k)
    /\ call.op = "commit" => OtherSnapshotsKept(0)
    /\ call.op = "mutate" =>
          /\ OtherSnapshotsKept(call.k)
          /\ ~ret.handed[call.k] => StateKept
    /\ \A k \in 1..Len(ret.snaps) :
          ~ret.handed[k] =>
              /\ \A i \in 1..Len(ret.snaps[k]), j \in 1..Len(ret.state) :
                    ret.snaps[k][i] # ret.state[j]
              /\ \A m \in 1..Len(ret.snaps) : \A i \in 1..Len(ret.snaps[k]), j \in 1..Len(ret.snaps[m]) :
                    m # k => ret.snaps[k][i] # ret.snaps[m][j]

\* a snapshot that was not passed to commit was edited after a commit, and
\* the state still has the committed value
EditedSnapshotLeftStateAlone ==
    /\ call.op = "mutate"
    /\ ~ret.handed[call.k]
    /\ Value(ret.heap, ret.snaps[call.k]) # call.snaps_before[call.k]
    /\ Len(ret.state) = 3
    /\ StateKept


\* the turn that just ended, with or without a commit
TurnEnded == pc = "idle" /\ events # <<>>

\* C28 as stated: over a committed turn the persisted last_context_rebuild
\* changes if and only if the rebuild ran in that turn, and a turn that does
\* not commit leaves it unchanged.
RebuildStampChangesIffRebuilt ==
    TurnEnded =>
        LET before == frame.state_before.meta.last_context_rebuild
            after == file.meta.last_context_rebuild
        IN  IF outcome = "committed"
            THEN (after # before) <=> frame.rebuilt
            ELSE after = before

\* C28 as amended: a committed turn in which the rebuild ran sets the
\* persisted last_context_rebuild to the second of its commit, which is a
\* new value unless the previous rebuild was committed within that same
\* second; a committed turn without a rebuild and a turn that does not
\* commit leave the persisted value as it was.
RebuildStampSetOnlyByRebuild ==
    TurnEnded =>
        LET before == frame.state_before.meta.last_context_rebuild
            after == file.meta.last_context_rebuild
        IN  /\ store.last_context_rebuild = after
            /\ IF outcome = "committed" /\ frame.rebuilt
               THEN /\ after = Some(clock)
                    /\ (after = before) <=> (before = Some(clock))
               ELSE after = before

\* a second rebuild was committed, in a later second than the first
SecondRebuildRestamped ==
    /\ TurnEnded
    /\ outcome = "committed"
    /\ frame.rebuilt
    /\ frame.state_before.meta.last_context_rebuild # None
    /\ file.meta.last_context_rebuild # frame.state_before.meta.last_context_rebuild

\* the rebuild ran in a turn that did not commit, after an earlier rebuild
RebuiltTurnNotCommitted ==
    /\ TurnEnded
    /\ outcome # "committed"
    /\ frame.rebuilt
    /\ file.meta.last_context_rebuild # None

\* what the audit log holds at every moment of a turn (events lists the
\* steps of the current turn)
AuditLogInv ==
    /\ Len(log) = Len(frame.log_before) + Count(events, "audit")
    /\ Count(events, "audit") <= 1
    /\ Count(events, "commit") = Count(events, "audit") + (IF pc = "audit" THEN 1 ELSE 0)
    /\ (TurnEnded /\ outcome = "committed") =>
            /\ Len(log) = Len(frame.log_before) + 1
            /\ SubSeq(log, 1, Len(log) - 1) = frame.log_before
            /\ Last(log).state_before = frame.state_before
            /\ Last(log).state_after = snapshot(store)
            /\ Last(log).state_after = file
            /\ Last(log).state_after.meta.turn_counter
                  = Last(log).state_before.meta.turn_counter + 1
    /\ (TurnEnded /\ outcome # "committed") => log = frame.log_before

\* a step leaves the log alone or appends one record to it, right after a
\* commit
AuditLogStep ==
    \/ log' = log
    \/ /\ pc = "audit"
       /\ Len(log') = Len(log) + 1
       /\ SubSeq(log', 1, Len(log)) = log

\* C29: a committed turn appends exactly one audit record, whose
\* state_before is the snapshot taken at the start of the turn and whose
\* state_after is the snapshot taken right after the commit; a turn that
\* does not commit appends none; records already appended are never
\* rewritten or removed.
OneAuditRecordPerCommittedTurn == []AuditLogInv /\ [][AuditLogStep]_vars

\* a second record was appended behind the first, which is still there
SecondRecordAppended ==
    /\ TurnEnded
    /\ outcome = "committed"
    /\ Len(log) = 2
    /\ log[1].state_after = log[2].state_before
    /\ log[2].state_after # log[2].state_before


\* the buckets of the call with live in place of the live chat handed in
CallBuckets(live) ==
    count_buckets(SYSTEM_PROMPT, call.conversation_summary, live,
                  call.tool_injections, call.current_user_input)

\* C31: fit_live_chat_to_budget evicts oldest first and no more than it
\* must: every suffix of the live chat handed in that is longer than the
\* one returned is under pressure, a live chat that is not under pressure
\* comes back unchanged, and the metrics returned are count_buckets of the
\* live chat returned.
FitEvictsAsLittleAsPossible ==
    harness_pc = "done" =>
        LET in == call.live_chat_messages IN
        /\ IsSuffix(ret.msgs, in)
        /\ \A k \in (Len(ret.msgs) + 1)..Len(in) :
              CallBuckets(SubSeq(in, Len(in) - k + 1, Len(in))).pressure
        /\ (~CallPressure => ret.msgs = in)
        /\ ret.metrics = CallBuckets(ret.msgs)

\* two turns were evicted and the last one, which fits, was kept
FitEvictedTwoKeptOne ==
    /\ harness_pc = "done"
    /\ Len(call.live_chat_messages) = 3
    /\ Len(ret.msgs) = 1
    /\ ~ret.metrics.pressure


\* sub occurs in text as a run of consecutive tokens
Occurs(sub, text) ==
    \E i \in 0..(Len(text) - Len(sub)) : SubSeq(text, i + 1, i + Len(sub)) = sub

\* the window fit of the current turn has been made
FitMade == events # <<>> /\ frame.fit_metrics # NoMetrics

\* the pre-turn live-chat entries that are no longer in the window
LeftWindow ==
    LET before == frame.state_before.continuity.live_chat
    IN  SubSeq(before, 1, Len(before) - Len(frame.live_chat))

\* C32: in a turn without a rebuild the window fit evicts nothing, so every
\* live-chat entry that leaves the window in a turn (dropped by
\* keep_last_turns or evicted by the fit) was rendered into the transcript
\* handed to the coarse summarisation pass of that turn.
WhatLeavesWindowWasSummarised ==
    FitMade =>
        /\ IsSuffix(frame.live_chat, frame.state_before.continuity.live_chat)
        /\ (~frame.rebuilt =>
                /\ frame.evictions = 0
                /\ frame.live_chat = frame.state_before.continuity.live_chat)
        /\ (LeftWindow # <<>> =>
                /\ frame.rebuilt
                /\ At("summary_call") # {}
                /\ Occurs(format_live_chat(LeftWindow),
                          format_live_chat(frame.state_before.continuity.live_chat))
                /\ Occurs(format_live_chat(frame.state_before.continuity.live_chat),
                          frame.transcript))

\* a rebuilding turn in which entries left the window
RebuildDroppedTurns == FitMade /\ frame.rebuilt /\ Len(LeftWindow) >= 2


\* ------------------------------------------------------- interleaved turns
\* Two or more run_turn_stream generators on one Orchestrator, advanced in
\* any order by their callers.  A generator runs without interruption from
\* one yield to the next, so a turn is two steps: from the call to its
\* first yield (snapshot, rebuild, fit, the response call) and from its
\* last yield to its end (continuity update, commit, audit record).  A
\* stream that yields nothing lets the first step run to the end.
\* call[t] holds the locals of turn t, ret the turns in commit order.
MaxRaceTurns == 2

RaceTurns == 1..MaxRaceTurns

\* the user input of turn t: different in every turn
RaceInput(t) == <<"turn">> \o Words(t)

RacePlans ==
    { [frags |-> <<>>, raises |-> TRUE],
      [frags |-> <<>>, raises |-> FALSE],
      [frags |-> << <<SP, "sure">> >>, raises |-> FALSE],
      [frags |-> << <<"su">> >>, raises |-> TRUE] }

NoTurn == [pc |-> "idle", seen |-> 0, turn_no |-> 0, reply |-> "none", f |-> NoFrame]

InitRace ==
    /\ cfg \in Budgets
    /\ Parked
    /\ harness_pc = "race"
    /\ call = [t \in RaceTurns |-> NoTurn]
    /\ ret = <<>>

\* lines 79-108 for turn t: the locals at the response call
RaceSnapshot(t, summary_reply) ==
    LET state_before == snapshot(store)
        summary == state_before.continuity.conversation_summary
        live_chat == state_before.continuity.live_chat
        pre_metrics == count_buckets(SYSTEM_PROMPT, summary, live_chat,
                                     <<>>, RaceInput(t))
        f0 == [NoFrame EXCEPT !.user_input = RaceInput(t),
                              !.state_before = state_before,
                              !.log_before = log,
                              !.summary = summary,
                              !.live_chat = live_chat,
                              !.pre_metrics = pre_metrics]
    IN  IF rebuild_triggered(pre_metrics)
        THEN Fitted([f0 EXCEPT
                        !.summary = rebuild_summary(summary, live_chat,
                                                    summary_reply, summary_reply),
                        !.live_chat = keep_last_turns(live_chat,
                                          cfg.live_chat_retain_turns_after_rebuild),
                        !.rebuilt = TRUE])
        ELSE Fitted(f0)

\* lines 137-161 for a turn with locals f0 whose stream gave out_buf
RaceDrained(f0, out_buf, reply) ==
    LET live_chat_after ==
            f0.live_chat
            \o << [role |-> "user", content |-> f0.user_input],
                  [role |-> "assistant", content |-> strip(out_buf)] >>
        u == IF strip(out_buf) = <<>>
             THEN [raised |-> FALSE,
                   active_context |-> f0.state_before.continuity.active_context,
                   open_threads |-> f0.state_before.continuity.open_threads]
             ELSE update_continuity(f0.state_before, f0.user_input, reply)
    IN  [f0 EXCEPT
            !.out_buf = out_buf,
            !.live_chat_after = live_chat_after,
            !.post_metrics = count_buckets(SYSTEM_PROMPT, f0.summary, live_chat_after,
                                           f0.injections, <<>>),
            !.active_context = u.active_context,
            !.open_threads = u.open_threads]

\* RaceFinish that appends the pair to the live chat the store holds at
\* commit time
RaceFinishOnStoredChat(t, turn, out_buf, reply) ==
    LET f1 == RaceDrained([turn.f EXCEPT !.live_chat = store.live_chat],
                          out_buf, reply) IN
    /\ store' = commit(store, commit_args(f1), clock)
    /\ file' = write(store')
    /\ log' = Append(log, [turn_record(f1, snapshot(store'))
                               EXCEPT !.turn_number = turn.turn_no])
    /\ call' = [call EXCEPT ![t] = [turn EXCEPT !.pc = "done", !.f = f1]]
    /\ ret' = Append(ret, t)

\* lines 137-184 for turn t: the commit and the audit record
RaceFinish(t, turn, out_buf, reply) ==
    LET f1 == RaceDrained(turn.f, out_buf, reply) IN
    /\ store' = commit(store, commit_args(f1), clock)
    /\ file' = write(store')
    /\ log' = Append(log, [turn_record(f1, snapshot(store'))
                               EXCEPT !.turn_number = turn.turn_no])
    /\ call' = [call EXCEPT ![t] = [turn EXCEPT !.pc = "done", !.f = f1]]
    /\ ret' = Append(ret, t)

\* the first next() of turn t
RaceBegin(t, summary_reply, plan, reply) ==
    /\ harness_pc = "race"
    /\ call[t].pc = "idle"
    /\ session' = session + 1
    /\ clock' = clock + 1
    /\ LET turn == [NoTurn EXCEPT !.seen = Len(ret),
                                  !.turn_no = session + 1,
                                  !.f = RaceSnapshot(t, summary_reply)]
       IN  IF plan.frags # <<>>
           THEN /\ call' = [call EXCEPT ![t] =
                               [turn EXCEPT !.pc = IF plan.raises THEN "failing"
                                                   ELSE "streaming",
                                            !.f.out_buf = plan.frags[1]]]
                /\ UNCHANGED <<store, file, log, ret>>
           ELSE IF plan.raises
           THEN /\ call' = [call EXCEPT ![t] = [turn EXCEPT !.pc = "raised"]]
                /\ UNCHANGED <<store, file, log, ret>>
           ELSE RaceFinish(t, turn, <<>>, reply)
    /\ UNCHANGED <<cfg, orch, pc, frame, stream, events, outcome, harness_pc>>

\* the last next() of turn t: the stream ends
RaceEnd(t, reply) ==
    /\ call[t].pc = "streaming"
    /\ RaceFinish(t, call[t], call[t].f.out_buf, reply)
    /\ UNCHANGED <<cfg, orch, clock, session, pc, frame, stream, events, outcome,
                   harness_pc>>

\* the last next() of turn t: the stream raises
RaceRaise(t) ==
    /\ call[t].pc = "failing"
    /\ call' = [call EXCEPT ![t].pc = "raised"]
    /\ UNCHANGED <<turn_vars, harness_pc, ret>>

NextRace ==
    \/ \E t \in RaceTurns, summary_reply \in SummaryReplies, plan \in RacePlans,
          reply \in ContinuityReplies : RaceBegin(t, summary_reply, plan, reply)
    \/ \E t \in RaceTurns, reply \in ContinuityReplies : RaceEnd(t, reply)
    \/ \E t \in RaceTurns : RaceRaise(t)

SpecRace == InitRace /\ [][NextRace]_vars

\* where turn t stands in the order of commits
CommitPos(t) == CHOOSE i \in 1..Len(ret) : ret[i] = t

\* turns a and b both took their snapshot before either committed, and a
\* committed first
Raced(a, b) ==
    /\ a # b
    /\ call[a].pc = "done"
    /\ call[b].pc = "done"
    /\ CommitPos(a) < CommitPos(b)
    /\ call[b].seen < CommitPos(a)

\* the pair turn t appends to the live chat
RacePair(t) ==
    << [role |-> "user", content |-> call[t].f.user_input],
       [role |-> "assistant", content |-> strip(call[t].f.out_buf)] >>

\* C33: nothing keeps two turns on one store apart.  When both take their
\* snapshot before either commits, both commits go through, each adds one to
\* turn_counter, and the live chat the later one writes is built on its own
\* snapshot: it ends with the later turn's pair and has no entry of the
\* earlier turn, and it is what the store and the file hold once it is the
\* last commit.
InterleavedTurnsLoseUpdate ==
    harness_pc = "race" =>
        /\ store.turn_counter = Len(ret)
        /\ Len(log) = Len(ret)
        /\ \A a, b \in RaceTurns :
              Raced(a, b) =>
                 LET later == call[b].f.live_chat_after IN
                 /\ store.turn_counter >= 2
                 /\ IsSuffix(RacePair(b), later)
                 /\ ~Contains(later, RacePair(a)[1])
                 /\ IsSuffix(SubSeq(later, 1, Len(later) - 2),
                             call[b].f.state_before.continuity.live_chat)
                 /\ (CommitPos(b) = Len(ret) =>
                        /\ store.live_chat = later
                        /\ file.continuity.live_chat = later)

\* two turns raced and the store holds only the later one's pair
EarlierPairLost ==
    /\ harness_pc = "race"
    /\ \E a, b \in RaceTurns :
          /\ Raced(a, b)
          /\ store.turn_counter = 2
          /\ store.live_chat = RacePair(b)


\* ----------------------------------------------------- _merge_open_threads
\* The harness: _merge_open_threads as _update_continuity calls it (limit=4)
\* on every prior list and every reported list of at most MaxThreadLen
\* threads; "T1" and " t1 " have one normalised text, a blank thread none.
MaxThreadLen == 3

PriorTexts == { <<"t1">>, <<"t2">>, <<"t3">>, <<SP>> }

NewTexts == { <<SP, "T1", NL>>, <<"t4">>, <<"t5">> }

ThreadCalls ==
    [prior_threads : SeqsUpTo(PriorTexts, MaxThreadLen),
     new_threads : SeqsUpTo(NewTexts, MaxThreadLen),
     resolved_threads : { <<>>, << <<"T1">> >>, << <<"t2">>, <<"t4">> >> }]

InitThreads ==
    /\ cfg \in {CHOOSE b \in Budgets : TRUE}
    /\ Parked
    /\ harness_pc = "threads"
    /\ call \in ThreadCalls
    /\ ret = <<>>

ThreadsCall ==
    /\ harness_pc = "threads"
    /\ ret' = merge_open_threads(call.prior_threads, call.new_threads,
                                 call.resolved_threads, OpenThreadsLimit)
    /\ harness_pc' = "done"
    /\ UNCHANGED <<turn_vars, call>>

NextThreads == ThreadsCall

SpecThreads == InitThreads /\ [][NextThreads]_vars

\* the prior threads that stay open: not blank and not reported resolved
SurvivingPrior ==
    SelectSeq(call.prior_threads,
              LAMBDA t : norm(t) # <<>> /\ norm(t) \notin NormSet(call.resolved_threads))

\* the reported threads that are not blank
ReportedThreads == SelectSeq(call.new_threads, LAMBDA t : norm(t) # <<>>)

\* C34: the merged open_threads is the surviving prior threads in their
\* order followed by the newly reported ones in reported order, without the
\* entries whose normalised text an earlier entry has, cut to 4; at the cap
\* the prior threads come before the reported ones.
MergedThreadsOrder ==
    (harness_pc = "done" /\ "prior_threads" \in DOMAIN call) =>
        LET all == DedupNorm(SurvivingPrior \o ReportedThreads)
            prior == DedupNorm(SurvivingPrior)
        IN  /\ ret = SubSeq(all, 1, Min(Len(all), OpenThreadsLimit))
            /\ Len(ret) <= OpenThreadsLimit
            /\ \A i, j \in 1..Len(ret) : i # j => norm(ret[i]) # norm(ret[j])
            /\ SubSeq(ret, 1, Min(Len(prior), Len(ret)))
                 = SubSeq(prior, 1, Min(Len(prior), Len(ret)))

\* three prior threads stayed open and of the reported threads, one of them
\* a repeat, only one fitted under the cap
ReportedThreadCutAtCap ==
    /\ harness_pc = "done"
    /\ "prior_threads" \in DOMAIN call
    /\ Len(DedupNorm(SurvivingPrior)) = 3
    /\ Len(DedupNorm(SurvivingPrior \o ReportedThreads)) > OpenThreadsLimit
    /\ Len(ret) = OpenThreadsLimit


\* ============================================================== sleep.py
\* The text the subconscious returns is a sequence of lines.  A line is a
\* section header ("=== DREAM ==="), a bullet ("- key: value"), a field
\* ("  key: value") or plain text without a colon.
Header(name) == [kind |-> "header", key |-> name, value |-> ""]
Bullet(key, value) == [kind |-> "bullet", key |-> key, value |-> value]
Field(key, value) == [kind |-> "field", key |-> key, value |-> value]
Plain(text) == [kind |-> "plain", key |-> "", value |-> text]

\* float(v) in hundredths, or default where float() raises
coerce_float(v, default) ==
    CASE v = "0.9" -> 90 [] v = "0.8" -> 80 [] v = "0.3" -> 30
      [] v = "1.5" -> 150 [] v = "-0.2" -> 0 - 20
      [] OTHER -> default

normalize_none_text(s) ==
    IF s = <<>> THEN <<>>
    ELSE IF s = <<Plain("NONE")>> \/ s = <<Plain("none")>> THEN <<>>
    ELSE s

\* the index of the first line of text that is the header name, 0 if none
FirstHeader(text, name) ==
    IF \E i \in 1..Len(text) : text[i] = Header(name)
    THEN CHOOSE i \in 1..Len(text) :
            /\ text[i] = Header(name)
            /\ \A j \in 1..(i - 1) : text[j] # Header(name)
    ELSE 0

\* re.split(r"(?m)^\s*-\s+", part): the lines before the first bullet, then
\* one block per bullet
RECURSIVE Blocks(_, _)
Blocks(part, cur) ==
    IF part = <<>> THEN <<cur>>
    ELSE IF Head(part).kind = "bullet"
         THEN <<cur>> \o Blocks(Tail(part), <<Head(part)>>)
         ELSE Blocks(Tail(part), Append(cur, Head(part)))

\* the dict of one block: every line with a colon sets entry[key] = value
RECURSIVE BlockEntry(_, _)
BlockEntry(blk, entry) ==
    IF blk = <<>> THEN entry
    ELSE IF Head(blk).kind \in {"bullet", "field"}
         THEN BlockEntry(Tail(blk), (Head(blk).key :> Head(blk).value) @@ entry)
         ELSE BlockEntry(Tail(blk), entry)

\* the entries of one section: one per block that is not blank
SectionEntries(part) ==
    LET blocks == SelectSeq(Blocks(part, <<>>), LAMBDA blk : blk # <<>>)
    IN  [i \in 1..Len(blocks) |-> BlockEntry(blocks[i], <<>>)]

NoSections == [dream |-> <<>>, memories |-> <<>>, beliefs |-> <<>>]

\* parse_sleep_output: an empty text or a text without one of the headers
\* gives the empty sections, and so does a split that raises (a header out
\* of order), but for what was assigned before it
parse_sleep_output(text) ==
    IF text = <<>>
       \/ FirstHeader(text, "DREAM") = 0
       \/ FirstHeader(text, "MEMORY CANDIDATES") = 0
       \/ FirstHeader(text, "BELIEFS") = 0
    THEN NoSections
    ELSE LET dream_part == SubSeq(text, FirstHeader(text, "DREAM") + 1, Len(text))
             m == FirstHeader(dream_part, "MEMORY CANDIDATES")
         IN  IF m = 0 THEN NoSections
             ELSE LET rest == SubSeq(dream_part, m + 1, Len(dream_part))
                      b == FirstHeader(rest, "BELIEFS")
                      dream == normalize_none_text(SubSeq(dream_part, 1, m - 1))
                  IN  IF b = 0 THEN [NoSections EXCEPT !.dream = dream]
                      ELSE [dream |-> dream,
                            memories |-> SectionEntries(SubSeq(rest, 1, b - 1)),
                            beliefs |-> SectionEntries(SubSeq(rest, b + 1, Len(rest)))]

MemoryKeys == <<"title", "meaning", "emotional_weight", "relevance", "based_on_provisional_ids">>
BeliefKeys == <<"belief", "confidence", "origin">>

\* entry.get(key, default)
GetOr(entry, key, default) == IF key \in DOMAIN entry THEN entry[key] ELSE default

\* the errors validate_parsed_sleep finds in entry i of one section
EntryErrors(section, i, entry, keys, ranged) ==
    LET missing == SelectSeq(keys, LAMBDA key : key \notin DOMAIN entry)
        x == IF ranged \in DOMAIN entry THEN coerce_float(entry[ranged], 50) ELSE 50
    IN  [k \in 1..Len(missing) |->
            [section |-> section, index |-> i, error |-> "missing", key |-> missing[k]]]
        \o (IF 0 <= x /\ x <= 100 THEN <<>>
            ELSE << [section |-> section, index |-> i, error |-> "out of range",
                     key |-> ranged] >>)

RECURSIVE SectionErrors(_, _, _, _, _)
SectionErrors(section, entries, i, keys, ranged) ==
    IF i > Len(entries) THEN <<>>
    ELSE EntryErrors(section, i - 1, entries[i], keys, ranged)
         \o SectionErrors(section, entries, i + 1, keys, ranged)

\* validate_parsed_sleep: [ok, errors]
validate_parsed_sleep(parsed) ==
    LET errors == SectionErrors("memory", parsed.memories, 1, MemoryKeys, "emotional_weight")
                  \o SectionErrors("belief", parsed.beliefs, 1, BeliefKeys, "confidence")
    IN  [ok |-> errors = <<>>, errors |-> errors]


ConsultFailed == << [section |-> "consult", index |-> 0, error |-> "failed", key |-> ""] >>

\* the loop of consult_sleep_with_retries that goes on after an attempt
\* that validated
RECURSIVE RetryLoopNoEarlyReturn(_, _, _, _, _, _, _)
RetryLoopNoEarlyReturn(consults, attempt, max_attempts, raw_text, parsed, last_errors, questions) ==
    IF attempt > max_attempts
    THEN [raw_text |-> raw_text, parsed |-> parsed, attempts_used |-> max_attempts,
          last_errors |-> last_errors, questions |-> questions]
    ELSE LET question == IF attempt = 1 THEN "consolidate" ELSE "corrective"
             r == consults[attempt]
             p == parse_sleep_output(r.text)
         IN  IF r.raises
             THEN RetryLoopNoEarlyReturn(consults, attempt + 1, max_attempts, raw_text,
                                         parsed, ConsultFailed, Append(questions, question))
             ELSE RetryLoopNoEarlyReturn(consults, attempt + 1, max_attempts, Some(r.text),
                                         Some(p), validate_parsed_sleep(p).errors,
                                         Append(questions, question))

\* the loop of consult_sleep_with_retries from attempt on.  consults[i] is
\* what the i-th call of consult does ([raises, text]); questions lists the
\* prompts of the calls made: the first prompt or the corrective one
RECURSIVE RetryLoop(_, _, _, _, _, _, _)
RetryLoop(consults, attempt, max_attempts, raw_text, parsed, last_errors, questions) ==
    IF attempt > max_attempts
    THEN [raw_text |-> raw_text, parsed |-> parsed, attempts_used |-> max_attempts,
          last_errors |-> last_errors, questions |-> questions]
    ELSE LET question == IF attempt = 1 THEN "consolidate" ELSE "corrective"
             r == consults[attempt]
             p == parse_sleep_output(r.text)
             v == validate_parsed_sleep(p)
         IN  IF r.raises
             THEN RetryLoop(consults, attempt + 1, max_attempts, raw_text, parsed,
                            ConsultFailed, Append(questions, question))
             ELSE IF v.ok
             THEN [raw_text |-> Some(r.text), parsed |-> Some(p),
                   attempts_used |-> attempt, last_errors |-> <<>>,
                   questions |-> Append(questions, question)]
             ELSE RetryLoop(consults, attempt + 1, max_attempts, Some(r.text), Some(p),
                            v.errors, Append(questions, question))

consult_sleep_with_retries(consults, max_attempts) ==
    RetryLoop(consults, 1, max_attempts, None, None, <<>>, <<>>)

\* What consult can return.  WellFormed has the three sections with one
\* complete memory and one complete belief; Quiet has the three headers and
\* nothing to commit.
MemoryLines(weight) ==
    << Bullet("title", "Trust in the long direction"), Field("meaning", "m"),
       Field("emotional_weight", weight), Field("relevance", "trust"),
       Field("based_on_provisional_ids", "[p1]") >>

BeliefLines(confidence) ==
    << Bullet("belief", "b"), Field("confidence", confidence), Field("origin", "[p1]") >>

WellFormed ==
    <<Header("DREAM"), Plain("fog")>> \o <<Header("MEMORY CANDIDATES")>>
    \o MemoryLines("0.8") \o <<Header("BELIEFS")>> \o BeliefLines("0.9")

Quiet == <<Header("DREAM"), Plain("NONE"), Header("MEMORY CANDIDATES"), Header("BELIEFS")>>

\* outputs that do not have the strict format
NoHeaders == <<Plain("I would rather not"), Bullet("title", "x")>>

NoBeliefsHeader ==
    <<Header("DREAM"), Plain("fog"), Header("MEMORY CANDIDATES")>> \o MemoryLines("0.8")

HeadersOutOfOrder ==
    <<Header("MEMORY CANDIDATES")>> \o MemoryLines("0.8")
    \o <<Header("DREAM"), Plain("fog"), Header("BELIEFS")>> \o BeliefLines("0.9")

WeightOutOfRange ==
    <<Header("DREAM"), Plain("fog"), Header("MEMORY CANDIDATES")>>
    \o MemoryLines("1.5") \o <<Header("BELIEFS")>> \o BeliefLines("0.9")

BeliefWithoutOrigin ==
    <<Header("DREAM"), Plain("NONE"), Header("MEMORY CANDIDATES"), Header("BELIEFS"),
      Bullet("belief", "b"), Field("confidence", "0.3")>>

SleepOutputs ==
    { WellFormed, Quiet, NoHeaders, NoBeliefsHeader, HeadersOutOfOrder,
      WeightOutOfRange, BeliefWithoutOrigin, <<>> }

ConsultOutcomes ==
    { [raises |-> TRUE, text |-> <<>>] }
    \cup { [raises |-> FALSE, text |-> text] : text \in SleepOutputs }

\* The harness: consult_sleep_with_retries for every max_attempts up to
\* MaxAttempts and every sequence of consult outcomes.
MaxAttempts == 3

RetryCalls ==
    [max_attempts : 0..MaxAttempts, consults : [1..MaxAttempts -> ConsultOutcomes]]

InitRetry ==
    /\ cfg \in {CHOOSE b \in Budgets : TRUE}
    /\ Parked
    /\ harness_pc = "retry"
    /\ call \in RetryCalls
    /\ ret = <<>>

RetryCall ==
    /\ harness_pc = "retry"
    /\ ret' = consult_sleep_with_retries(call.consults, call.max_attempts)
    /\ harness_pc' = "done"
    /\ UNCHANGED <<turn_vars, call>>

NextRetry == RetryCall

SpecRetry == InitRetry /\ [][NextRetry]_vars

\* the call of the retry harness has returned
RetryDone == harness_pc = "done" /\ "max_attempts" \in DOMAIN call

\* attempt i of the call returns an output that parses and validates
Validates(i) ==
    /\ ~call.consults[i].raises
    /\ validate_parsed_sleep(parse_sleep_output(call.consults[i].text)).ok

\* the attempts up to max_attempts that validate
ValidAttempts == { i \in 1..call.max_attempts : Validates(i) }

\* C35: consult_sleep_with_retries calls consult at most max_attempts times
\* and stops at the first attempt whose output parses and validates,
\* returning that output with the attempt number and no errors; a consult
\* that raises is a failed attempt and nothing is raised; when no attempt
\* validates (max_attempts >= 1) it returns attempts_used = max_attempts and
\* a non-empty error list; every call after the first uses the corrective
\* prompt.
RetriesStopAtFirstValid ==
    RetryDone =>
        /\ Len(ret.questions) <= call.max_attempts
        /\ \A i \in 1..Len(ret.questions) :
              ret.questions[i] = IF i = 1 THEN "consolidate" ELSE "corrective"
        /\ (ValidAttempts # {} =>
               LET first == CHOOSE i \in ValidAttempts : \A j \in ValidAttempts : i <= j
               IN  /\ ret.attempts_used = first
                   /\ Len(ret.questions) = first
                   /\ ret.last_errors = <<>>
                   /\ ret.raw_text = Some(call.consults[first].text)
                   /\ ret.parsed = Some(parse_sleep_output(call.consults[first].text)))
        /\ (ValidAttempts = {} /\ call.max_attempts >= 1 =>
               /\ ret.attempts_used = call.max_attempts
               /\ Len(ret.questions) = call.max_attempts
               /\ ret.last_errors # <<>>)

\* the first attempt raised, the second failed validation and the third was
\* accepted
ThirdAttemptAccepted ==
    /\ RetryDone
    /\ call.max_attempts = 3
    /\ call.consults[1].raises
    /\ call.consults[2] = [raises |-> FALSE, text |-> WeightOutOfRange]
    /\ ret.attempts_used = 3
    /\ ret.last_errors = <<>>
    /\ ret.questions = <<"consolidate", "corrective", "corrective">>


\* ---------------------------------------------------------------- run_sleep
\* call is the world run_sleep works on: the STM file, the hippocampus
\* (provisional memories, dreams, final memories, beliefs), the autobiography
\* and the sleep ledger; ret holds the locals of the run in progress and
\* before, the world as the run found it.
MaxSleeps == 2

\* len(text) and the RELEVANCE_KEYWORDS a text contains, for the values of
\* the outputs above
CharLen(v) == CASE v = "Trust in the long direction" -> 27 [] v = "" -> 0 [] OTHER -> 1

KeywordsIn(v) ==
    CASE v = "Trust in the long direction" -> {"trust", "direction"}
      [] v = "trust" -> {"trust"}
      [] OTHER -> {}

memory_is_salient(m) ==
    \/ m.emotional_weight >= 65
    \/ CharLen(m.meaning) >= 120
    \/ KeywordsIn(m.relevance) # {}
    \/ (CharLen(m.title) >= 18 /\ KeywordsIn(m.title) # {})

StmTurns == << [type |-> "turn", text |-> "hello"], [type |-> "turn", text |-> "plan"] >>

Worlds ==
    [stm : { <<>>, StmTurns },
     provisional : { {}, {"p1", "p2"} },
     retired : { {} },
     dreams : { <<>> },
     finals : { <<>> },
     beliefs : { <<>> },
     autobio : { <<>> },
     ledger : { <<>> },
     runs : { 0 }]

NoLocals ==
    [pc |-> "idle", before |-> <<>>, consults |-> <<>>, parsed |-> None,
     ledger |-> <<>>, provisional_ids |-> {}, wake |-> "none", committed |-> <<>>]

InitSleep ==
    /\ cfg \in {CHOOSE b \in Budgets : TRUE}
    /\ Parked
    /\ harness_pc = "sleep"
    /\ call \in Worlds
    /\ ret = NoLocals

\* lines 580-637: load the STM and the provisional memories, write the
\* autobiography entry when there are turns, stop when there are none
SleepStart(autobio_raises) ==
    /\ harness_pc = "sleep"
    /\ ret.pc \in {"idle", "done"}
    /\ call.runs < MaxSleeps
    /\ call' = [call EXCEPT
                   !.runs = @ + 1,
                   !.autobio = IF call.stm # <<>> /\ ~autobio_raises
                               THEN Append(@, [ts |-> call.runs + 1]) ELSE @]
    /\ ret' = [NoLocals EXCEPT !.pc = IF call.stm = <<>> THEN "done" ELSE "consult",
                               !.before = call',
                               !.provisional_ids = call.provisional]
    /\ UNCHANGED <<turn_vars, harness_pc>>

\* SleepConsult whose abort branch also collapses the STM
SleepConsultAbortCollapses(consults) ==
    /\ ret.pc = "consult"
    /\ LET r == consult_sleep_with_retries(consults, 3)
           ledger == [ts |-> call.runs,
                      stm_turn_count |-> Len(call.stm),
                      provisional_count |-> Cardinality(ret.provisional_ids),
                      attempts_used |-> r.attempts_used,
                      parse_errors |-> r.last_errors,
                      aborted |-> FALSE, dream_committed |-> FALSE,
                      final_memory_ids |-> <<>>, beliefs_committed |-> <<>>]
       IN  IF r.parsed = None \/ r.last_errors # <<>>
           THEN /\ call' = [call EXCEPT
                               !.stm = <<>>,
                               !.ledger = Append(@, [ledger EXCEPT !.aborted = TRUE])]
                /\ ret' = [ret EXCEPT !.pc = "done", !.consults = consults,
                                      !.parsed = r.parsed,
                                      !.ledger = [ledger EXCEPT !.aborted = TRUE]]
           ELSE /\ call' = call
                /\ ret' = [ret EXCEPT !.pc = "commit", !.consults = consults,
                                      !.parsed = r.parsed, !.ledger = ledger]
    /\ UNCHANGED <<turn_vars, harness_pc>>

\* lines 639-689: the consolidation with max_attempts=3, the ledger base and
\* the abort when nothing usable came back
SleepConsult(consults) ==
    /\ ret.pc = "consult"
    /\ LET r == consult_sleep_with_retries(consults, 3)
           ledger == [ts |-> call.runs,
                      stm_turn_count |-> Len(call.stm),
                      provisional_count |-> Cardinality(ret.provisional_ids),
                      attempts_used |-> r.attempts_used,
                      parse_errors |-> r.last_errors,
                      aborted |-> FALSE, dream_committed |-> FALSE,
                      final_memory_ids |-> <<>>, beliefs_committed |-> <<>>]
       IN  IF r.parsed = None \/ r.last_errors # <<>>
           THEN /\ call' = [call EXCEPT
                               !.ledger = Append(@, [ledger EXCEPT !.aborted = TRUE])]
                /\ ret' = [ret EXCEPT !.pc = "done", !.consults = consults,
                                      !.parsed = r.parsed,
                                      !.ledger = [ledger EXCEPT !.aborted = TRUE]]
           ELSE /\ call' = call
                /\ ret' = [ret EXCEPT !.pc = "commit", !.consults = consults,
                                      !.parsed = r.parsed, !.ledger = ledger]
    /\ UNCHANGED <<turn_vars, harness_pc>>

\* the memory candidates that pass the guards of lines 731-754
MemoriesToCommit(parsed) ==
    LET norm_m(m) == [title |-> GetOr(m, "title", ""),
                      meaning |-> GetOr(m, "meaning", ""),
                      relevance |-> GetOr(m, "relevance", ""),
                      emotional_weight |->
                          coerce_float(GetOr(m, "emotional_weight", "0.5"), 50)]
        all == [i \in 1..Len(parsed.memories) |-> norm_m(parsed.memories[i])]
    IN  SelectSeq(all, LAMBDA m : m.title # "" /\ m.meaning # "" /\ memory_is_salient(m))

\* the beliefs that pass the gates of lines 774-795
BeliefsToCommit(parsed) ==
    LET norm_b(b) == [belief |-> GetOr(b, "belief", ""),
                      truncated |-> CharLen(GetOr(b, "belief", "")) > 140,
                      confidence |-> coerce_float(GetOr(b, "confidence", "0.5"), 50)]
        all == [i \in 1..Len(parsed.beliefs) |-> norm_b(parsed.beliefs[i])]
    IN  SelectSeq(all, LAMBDA b : b.belief # "" /\ b.confidence >= 60)

\* what the hippocampus does in each kind of commit of one run
HippoOutcomes ==
    LET ok == [dream |-> "ok", memory |-> "id", belief |-> "id", retire |-> "ok"]
    IN  { ok, [ok EXCEPT !.dream = "raises"], [ok EXCEPT !.memory = "none"],
          [ok EXCEPT !.memory = "raises", !.belief = "raises"],
          [ok EXCEPT !.retire = "raises"] }

\* lines 691-834: the commit phase
SleepCommit(hippo) ==
    /\ ret.pc = "commit"
    /\ LET parsed == ret.parsed[1]
           dream_committed == parsed.dream # <<>> /\ hippo.dream = "ok"
           new_finals == IF hippo.memory = "raises" THEN <<>> ELSE MemoriesToCommit(parsed)
           new_final_ids == IF hippo.memory = "id"
                            THEN [i \in 1..Len(new_finals) |-> Len(call.finals) + i]
                            ELSE <<>>
           new_beliefs == IF hippo.belief = "raises" THEN <<>> ELSE BeliefsToCommit(parsed)
           ledger == [ret.ledger EXCEPT
                         !.dream_committed = dream_committed,
                         !.final_memory_ids = new_final_ids,
                         !.beliefs_committed =
                             [i \in 1..Len(new_beliefs) |-> Len(call.beliefs) + i]]
       IN  /\ call' = [call EXCEPT
                          !.dreams = IF dream_committed THEN Append(@, parsed.dream) ELSE @,
                          !.finals = @ \o new_finals,
                          !.beliefs = @ \o new_beliefs,
                          !.retired = IF new_final_ids # <<>> /\ hippo.retire = "ok"
                                      THEN @ \cup ret.provisional_ids ELSE @,
                          !.provisional = IF new_final_ids # <<>> /\ hippo.retire = "ok"
                                          THEN @ \ ret.provisional_ids ELSE @]
           /\ ret' = [ret EXCEPT !.pc = "wake", !.ledger = ledger,
                                 !.committed = <<call'.dreams, call'.finals,
                                                 call'.beliefs, call'.retired>>]
    /\ UNCHANGED <<turn_vars, harness_pc>>

\* overwrite_stm_with_summary: the file opened with "w" holds one record
overwrite_stm_with_summary(summary_text, now_ts) ==
    << [type |-> "stm_summary", text |-> summary_text, ts |-> now_ts] >>

WakeOutcomes == {"ok", "generation_raises", "open_raises", "write_raises"}

\* SleepWake that collapses the STM before the summary is generated
SleepWakeCollapsesFirst(result) ==
    /\ ret.pc = "wake"
    /\ call' = [call EXCEPT
                   !.stm = IF result \in {"ok", "generation_raises"}
                           THEN overwrite_stm_with_summary("summary", call.runs)
                           ELSE IF result = "write_raises" THEN <<>> ELSE @,
                   !.ledger = Append(@, [ret.ledger EXCEPT !.aborted = result # "ok"])]
    /\ ret' = [ret EXCEPT !.pc = "done", !.wake = result,
                          !.ledger = [ret.ledger EXCEPT !.aborted = result # "ok"]]
    /\ UNCHANGED <<turn_vars, harness_pc>>

\* lines 836-867: the wake summary, the STM collapse and the ledger record.
\* generate_wake_summary may raise; overwrite_stm_with_summary may raise
\* before it opens the file or after open(..., "w") has emptied it
SleepWake(result) ==
    /\ ret.pc = "wake"
    /\ call' = [call EXCEPT
                   !.stm = IF result = "ok"
                           THEN overwrite_stm_with_summary("summary", call.runs)
                           ELSE IF result = "write_raises" THEN <<>> ELSE @,
                   !.ledger = Append(@, [ret.ledger EXCEPT !.aborted = result # "ok"])]
    /\ ret' = [ret EXCEPT !.pc = "done", !.wake = result,
                          !.ledger = [ret.ledger EXCEPT !.aborted = result # "ok"]]
    /\ UNCHANGED <<turn_vars, harness_pc>>

\* what the three consult calls of one run may do
SleepConsults ==
    LET raises == [raises |-> TRUE, text |-> <<>>]
        gives(text) == [raises |-> FALSE, text |-> text]
    IN  { <<raises, raises, raises>>,
          <<gives(WeightOutOfRange), gives(BeliefWithoutOrigin), gives(WeightOutOfRange)>>,
          <<gives(WeightOutOfRange), raises, raises>>,
          <<raises, gives(WeightOutOfRange), gives(WellFormed)>>,
          <<gives(WellFormed), raises, raises>>,
          <<gives(Quiet), raises, raises>>,
          <<gives(NoHeaders), gives(NoHeaders), gives(NoHeaders)>>,
          <<gives(NoBeliefsHeader), gives(HeadersOutOfOrder), gives(<<>>)>> }

NextSleep ==
    \/ \E autobio_raises \in BOOLEAN : SleepStart(autobio_raises)
    \/ \E consults \in SleepConsults : SleepConsult(consults)
    \/ \E hippo \in HippoOutcomes : SleepCommit(hippo)
    \/ \E result \in WakeOutcomes : SleepWake(result)

SpecSleep == InitSleep /\ [][NextSleep]_vars


\* a run of run_sleep that got as far as the consolidation has ended
SleepDone == harness_pc = "sleep" /\ ret.pc = "done" /\ ret.consults # <<>>

\* what consult did in attempt i of the run is an output that validates
AttemptValidates(i) ==
    /\ ~ret.consults[i].raises
    /\ validate_parsed_sleep(parse_sleep_output(ret.consults[i].text)).ok

\* the ledger grew by one record in this run, with aborted = flag
OneLedgerRecord(flag) ==
    /\ Len(call.ledger) = Len(ret.before.ledger) + 1
    /\ SubSeq(call.ledger, 1, Len(ret.before.ledger)) = ret.before.ledger
    /\ call.ledger[Len(call.ledger)].aborted = flag

\* C36: when no attempt of the consolidation validates, run_sleep commits
\* nothing: no dream, final memory or belief, no provisional memory retired,
\* the STM file as it was, and one ledger record with aborted = true.
FailedConsolidationCommitsNothing ==
    (SleepDone /\ \A i \in 1..3 : ~AttemptValidates(i)) =>
        /\ call.dreams = ret.before.dreams
        /\ call.finals = ret.before.finals
        /\ call.beliefs = ret.before.beliefs
        /\ call.retired = ret.before.retired
        /\ call.provisional = ret.before.provisional
        /\ call.stm = ret.before.stm
        /\ OneLedgerRecord(TRUE)

\* three attempts, the last two failing validation, ended a run on an STM
\* with turns
ThreeAttemptsThenAbort ==
    /\ SleepDone
    /\ \A i \in 1..3 : ~AttemptValidates(i)
    /\ ~ret.consults[3].raises
    /\ ret.ledger.attempts_used = 3
    /\ ret.ledger.parse_errors # <<>>
    /\ call.stm = StmTurns

\* C37: the STM file is overwritten only after the consolidation validated
\* and the wake summary was generated; when generating the wake summary
\* fails the STM file keeps its content, the ledger record is appended with
\* aborted = true, and what the commit phase wrote stays.
StmCollapsedOnlyAfterWakeSummary ==
    (harness_pc = "sleep" /\ ret.pc = "done") =>
        /\ (call.stm # ret.before.stm =>
               /\ ret.parsed # None
               /\ \E i \in 1..3 : AttemptValidates(i)
               /\ ret.ledger.parse_errors = <<>>
               /\ ret.wake \in {"ok", "write_raises"})
        /\ (ret.wake = "generation_raises" =>
               /\ call.stm = ret.before.stm
               /\ OneLedgerRecord(TRUE)
               /\ <<call.dreams, call.finals, call.beliefs, call.retired>> = ret.committed)

\* the wake summary failed after a final memory was committed and the
\* provisional memories retired
WakeFailedAfterCommits ==
    /\ harness_pc = "sleep"
    /\ ret.pc = "done"
    /\ ret.wake = "generation_raises"
    /\ call.finals # ret.before.finals
    /\ call.retired # ret.before.retired
    /\ call.stm = StmTurns

\* text lacks one of the three section headers
LacksHeader(text) ==
    \E name \in {"DREAM", "MEMORY CANDIDATES", "BELIEFS"} : FirstHeader(text, name) = 0

\* C38 as stated: when every attempt returns a text that lacks a section
\* header, no attempt is accepted: all three attempts are used, the run is
\* aborted and the STM file is left as it was.
MalformedOutputNeverAccepted ==
    (SleepDone /\ \A i \in 1..3 : ~ret.consults[i].raises /\ LacksHeader(ret.consults[i].text)) =>
        /\ ret.ledger.attempts_used = 3
        /\ ret.ledger.parse_errors # <<>>
        /\ OneLedgerRecord(TRUE)
        /\ call.stm = ret.before.stm


\* =========================================== deckbuilder_context.py
\* call is a DeckbuilderContextManager: its deck_state and its working-deck
\* window (content, current_tokens); ret is the authoritative deck block of
\* the last get_context_for_api.  What count_tokens gives for a deck is the
\* tokenizer's affair: each update draws it from DeckTokenCounts.
MaxDeckUpdates == 3

WorkingDeckMaxTokens == 20000

Decks ==
    { [commander |-> "Atraxa", strategy |-> "other", cards |-> <<>>],
      [commander |-> "Atraxa", strategy |-> "control", cards |-> <<"Sol Ring">>],
      [commander |-> "Krenko", strategy |-> "aggro", cards |-> <<"Sol Ring", "Shock">>] }

DeckTokenCounts == {400, 12000}

\* ContextWindow.clear_content: only the rebuildable windows are cleared
clear_content(window, window_type) ==
    IF window_type \in {"live_chat", "conversation_summary"}
    THEN [content |-> <<>>, current_tokens |-> 0]
    ELSE window

\* ContextWindow.add_content: the window afterwards (unchanged when the item
\* does not fit, for which the method returns False)
add_content(window, max_tokens, item, token_count) ==
    IF window.current_tokens + token_count > max_tokens THEN window
    ELSE [content |-> Append(window.content, item),
          current_tokens |-> window.current_tokens + token_count]

\* the deck_content dict _update_working_deck_window builds
deck_content(deck_state) ==
    [commander |-> deck_state.commander, strategy |-> deck_state.strategy,
     cards |-> deck_state.cards, card_count |-> Len(deck_state.cards)]

\* _update_working_deck_window on the working-deck window
update_working_deck_window(window, deck_state, token_count) ==
    add_content(clear_content(window, "working_deck"), WorkingDeckMaxTokens,
                deck_content(deck_state), token_count)

\* the "Current Deck State (Authoritative)" block of get_context_for_api
deck_block(window) ==
    IF window.content # <<>>
    THEN Some([commander |-> window.content[1].commander,
               strategy |-> window.content[1].strategy,
               card_count |-> window.content[1].card_count])
    ELSE None

\* DeckbuilderContextManager.__init__
InitDeck ==
    /\ cfg \in {CHOOSE b \in Budgets : TRUE}
    /\ Parked
    /\ harness_pc = "deck"
    /\ \E deck_state \in Decks, token_count \in DeckTokenCounts :
          call = [deck_state |-> deck_state, updates |-> 0, deck_modified |-> FALSE,
                  working_deck |->
                      update_working_deck_window([content |-> <<>>, current_tokens |-> 0],
                                                 deck_state, token_count)]
    /\ ret = None

\* update_deck_state
UpdateDeckState(deck_state, token_count) ==
    /\ harness_pc = "deck"
    /\ call.updates < MaxDeckUpdates
    /\ call' = [deck_state |-> deck_state, updates |-> call.updates + 1,
                deck_modified |-> TRUE,
                working_deck |-> update_working_deck_window(call.working_deck,
                                                            deck_state, token_count)]
    /\ UNCHANGED <<turn_vars, harness_pc, ret>>

\* get_context_for_api: the deck block it puts into the messages
GetContextForApi ==
    /\ harness_pc = "deck"
    /\ ret' = deck_block(call.working_deck)
    /\ UNCHANGED <<turn_vars, harness_pc, call>>

NextDeck ==
    \/ \E deck_state \in Decks, token_count \in DeckTokenCounts :
          UpdateDeckState(deck_state, token_count)
    \/ GetContextForApi

SpecDeck == InitDeck /\ [][NextDeck]_vars

\* C39 as stated: after any sequence of update_deck_state calls the
\* working-deck window holds exactly one entry, that entry describes the
\* current deck state, and the authoritative deck block reports the current
\* commander, strategy and card count.
WorkingDeckWindowIsCurrent ==
    harness_pc = "deck" =>
        /\ Len(call.working_deck.content) = 1
        /\ call.working_deck.content[1] = deck_content(call.deck_state)
        /\ deck_block(call.working_deck)
             = Some([commander |-> call.deck_state.commander,
                     strategy |-> call.deck_state.strategy,
                     card_count |-> Len(call.deck_state.cards)])


\* ================== personalization_policy.py, DesignSession (STM signals)
\* call is a DesignSession and the clock: stm_signals by domain, now in
\* seconds; ret is what the last add_signal or get_preferences returned.
\* A value is its type and, for a string, its length.
MaxSignalCalls == 23
MaxFreeSignalCalls == 2
MaxSignalTicks == 1

SignalsKept == 20

Domains == {"conversation", "tools_ir", "opt_in_context_apple"}

ALLOWED_SIGNAL_KEYS ==
    [conversation |-> {"framing_preference", "verbosity_tolerance",
                       "humor_directness_balance", "question_style"},
     tools_ir |-> {"source_format_preference", "depth_vs_breadth",
                   "exploration_vs_confirmation", "uncertainty_tolerance"},
     opt_in_context_apple |-> {"focus_pattern", "energy_pattern", "downshift_pattern",
                               "novelty_tolerance", "session_rhythm", "media_context"}]

DEFAULT_DOMAIN_TTLS_SECONDS ==
    [conversation |-> 30 * 60, tools_ir |-> 2 * 60 * 60, opt_in_context_apple |-> 60 * 60]

\* the time between two looks at the clock: the shortest decay window
TickSeconds == DEFAULT_DOMAIN_TTLS_SECONDS.conversation

\* the OUT_OF_SCOPE_TERMS that occur in key.lower(), for the keys used here
OutOfScopeTermsIn(key) ==
    CASE key = "location_preference" -> {"location"}
      [] key = "Device_ID" -> {"device_id"}
      [] OTHER -> {}

is_out_of_scope_key(key) == OutOfScopeTermsIn(key) # {}

\* validate_signal without the allow-list test
validate_signal_skips_allowlist(domain, key, value) ==
    IF domain \notin DOMAIN ALLOWED_SIGNAL_KEYS THEN [ok |-> FALSE, reason |-> "domain_not_allowed"]
    ELSE IF is_out_of_scope_key(key) THEN [ok |-> FALSE, reason |-> "key_out_of_scope"]
    ELSE IF value.type = "str" /\ value.len > 200 THEN [ok |-> FALSE, reason |-> "value_too_long"]
    ELSE IF value.type \notin {"str", "int", "float", "bool"}
         THEN [ok |-> FALSE, reason |-> "value_type_not_allowed"]
    ELSE [ok |-> TRUE, reason |-> "ok"]

validate_signal(domain, key, value) ==
    IF domain \notin DOMAIN ALLOWED_SIGNAL_KEYS THEN [ok |-> FALSE, reason |-> "domain_not_allowed"]
    ELSE IF is_out_of_scope_key(key) THEN [ok |-> FALSE, reason |-> "key_out_of_scope"]
    ELSE IF key \notin ALLOWED_SIGNAL_KEYS[domain]
         THEN [ok |-> FALSE, reason |-> "key_not_allowed_for_domain"]
    ELSE IF value.type = "str" /\ value.len > 200 THEN [ok |-> FALSE, reason |-> "value_too_long"]
    ELSE IF value.type \notin {"str", "int", "float", "bool"}
         THEN [ok |-> FALSE, reason |-> "value_type_not_allowed"]
    ELSE [ok |-> TRUE, reason |-> "ok"]

\* DesignSession._prune_expired at time now
prune_expired(stm_signals, now) ==
    [d \in DOMAIN stm_signals |->
        SelectSeq(stm_signals[d], LAMBDA r : ~(now >= r.expires_at))]

\* DesignSession.add_signal at time now: [result, stm_signals]
add_signal(stm_signals, domain, key, value, now) ==
    IF ~validate_signal(domain, key, value).ok
    THEN [result |-> FALSE, stm_signals |-> stm_signals]
    ELSE LET signal == [domain |-> domain, key |-> key, value |-> value,
                        created_at |-> now,
                        expires_at |-> now + Max(0, DEFAULT_DOMAIN_TTLS_SECONDS[domain])]
             pruned == prune_expired(stm_signals, now)
             appended == Append(pruned[domain], signal)
         IN  [result |-> TRUE,
              stm_signals |->
                  [pruned EXCEPT ![domain] =
                      SubSeq(appended, Max(1, Len(appended) - SignalsKept + 1),
                             Len(appended))]]

\* latest_by_key of get_preferences
RECURSIVE latest_by_key(_)
latest_by_key(records) ==
    IF records = <<>> THEN <<>>
    ELSE LET r == records[Len(records)] IN
         (r.key :> r.value) @@ latest_by_key(SubSeq(records, 1, Len(records) - 1))

\* DesignSession.get_preferences at time now: [prefs, stm_signals]
get_preferences(stm_signals, now) ==
    LET pruned == prune_expired(stm_signals, now)
    IN  [prefs |-> [d \in Domains |-> latest_by_key(pruned[d])], stm_signals |-> pruned]

Text(n) == [type |-> "str", len |-> n]

Filler == [domain |-> "conversation", key |-> "verbosity_tolerance", value |-> Text(7)]

Probe == [domain |-> "conversation", key |-> "location_preference", value |-> Text(6)]

SignalInputs ==
    { Filler, Probe,
      [domain |-> "conversation", key |-> "question_style", value |-> [type |-> "bool", len |-> 0]],
      [domain |-> "conversation", key |-> "depth_vs_breadth", value |-> Text(4)],
      [domain |-> "tools_ir", key |-> "depth_vs_breadth", value |-> Text(4)],
      [domain |-> "tools_ir", key |-> "Device_ID", value |-> Text(4)],
      [domain |-> "tools_ir", key |-> "uncertainty_tolerance", value |-> Text(201)],
      [domain |-> "opt_in_context_apple", key |-> "focus_pattern", value |-> Text(6)],
      [domain |-> "opt_in_context_apple", key |-> "focus_pattern",
       value |-> [type |-> "list", len |-> 0]],
      [domain |-> "opt_in_context_apple", key |-> "favorite_color", value |-> Text(3)] }

InitSignals ==
    /\ cfg \in {CHOOSE b \in Budgets : TRUE}
    /\ Parked
    /\ harness_pc = "signals"
    /\ call = [now |-> 0, ticks |-> 0, calls |-> 0, accepted |-> 0,
               stm_signals |-> [d \in Domains |-> <<>>]]
    /\ ret = [kind |-> "none"]

\* session.add_signal(domain, key, value): any input in the first
\* MaxFreeSignalCalls calls, then the same accepted or rejected one
AddSignal(input) ==
    /\ harness_pc = "signals"
    /\ call.calls < MaxSignalCalls
    /\ call.calls < MaxFreeSignalCalls \/ input \in {Filler, Probe}
    /\ LET a == add_signal(call.stm_signals, input.domain, input.key, input.value, call.now)
       IN  /\ call' = [call EXCEPT !.calls = @ + 1,
                                   !.accepted = IF a.result THEN @ + 1 ELSE @,
                                   !.stm_signals = a.stm_signals]
           /\ ret' = [kind |-> "add", input |-> input, result |-> a.result,
                      before |-> call.stm_signals]
    /\ UNCHANGED <<turn_vars, harness_pc>>

\* session.get_preferences()
GetPreferences ==
    /\ harness_pc = "signals"
    /\ LET g == get_preferences(call.stm_signals, call.now)
       IN  /\ call' = [call EXCEPT !.stm_signals = g.stm_signals]
           /\ ret' = [kind |-> "prefs", prefs |-> g.prefs]
    /\ UNCHANGED <<turn_vars, harness_pc>>

\* half an hour passes
SignalTick ==
    /\ harness_pc = "signals"
    /\ call.ticks < MaxSignalTicks
    /\ call' = [call EXCEPT !.ticks = @ + 1, !.now = @ + TickSeconds]
    /\ UNCHANGED <<turn_vars, harness_pc, ret>>

NextSignals ==
    \/ \E input \in SignalInputs : AddSignal(input)
    \/ GetPreferences
    \/ SignalTick

SpecSignals == InitSignals /\ [][NextSignals]_vars

\* key may be stored for domain: allow-listed for it and without an
\* out-of-scope term
KeyInPolicy(domain, key) ==
    key \in ALLOWED_SIGNAL_KEYS[domain] /\ OutOfScopeTermsIn(key) = {}

\* C40: after any sequence of add_signal calls, get_preferences has only keys
\* that are allow-listed for their domain and not out of scope; a rejected
\* signal returns False and leaves the session's signals as they were; no
\* domain holds more than 20 signals.
SignalsStayInPolicy ==
    harness_pc = "signals" =>
        /\ \A d \in Domains :
              /\ Len(call.stm_signals[d]) <= 20
              /\ \A i \in 1..Len(call.stm_signals[d]) :
                    KeyInPolicy(d, call.stm_signals[d][i].key)
        /\ (ret.kind = "prefs" =>
               \A d \in Domains : \A key \in DOMAIN ret.prefs[d] : KeyInPolicy(d, key))
        /\ (ret.kind = "add" =>
               /\ (~KeyInPolicy(ret.input.domain, ret.input.key) => ~ret.result)
               /\ (~ret.result => call.stm_signals = ret.before))

\* the 21st accepted conversation signal pushed the oldest one out, and a
\* rejected signal then left the twenty as they were
RejectedAtFullDomain ==
    /\ harness_pc = "signals"
    /\ call.accepted >= 21
    /\ Len(call.stm_signals["conversation"]) = 20
    /\ ret.kind = "add"
    /\ ~ret.result
    /\ ret.input = Probe

====
